---- MODULE Spec2Model ----
(***************************************************************************)
(* Lesson generator: content generation and file assembly pipeline.        *)
(*                                                                         *)
(* Texts whose characters matter (module names, slugs, concepts) are       *)
(* sequences of one-character strings.  Texts of which the code only       *)
(* takes the length are represented by that length.                        *)
(***************************************************************************)
EXTENDS Integers, Sequences, FiniteSets, TLC

\* ------------------------------------------------------------------ bounds
MaxModules == 2      \* longest module list drawn for validate_topic
MaxLines == 2        \* longest input text (in lines) drawn for the syntax repair
MaxLineLen == 2      \* longest input line (in tokens) drawn for the syntax repair
MaxCalls == 3        \* generate_content calls made on one ContentGenerator
MaxEnvFaults == 1    \* departures of the surroundings from their usual behaviour in one run
MaxDelay == 32       \* seconds a provider may take to answer one call
MaxClasses == 2      \* classes declared by a code file handed over for testing
MaxTopics == 4       \* topics of one web generation request
MaxRunCalls == 2     \* provider calls of one of two concurrent generations
MaxTasks == 2    \* coroutines of the WebSocketManager suspended at a time
MaxCliTopics == 2    \* topic names given to the create command
MaxNameChars == 3    \* characters of a topic name drawn freely, before filling and padding

\* ------------------------------------------------------- character helpers
LowerChar(c) == IF c = "A" THEN "a" ELSE IF c = "B" THEN "b" ELSE c

\* str.lower()
Lower(s) == [i \in DOMAIN s |-> LowerChar(s[i])]

RECURSIVE LStrip(_)
LStrip(s) == IF s # <<>> /\ Head(s) = " " THEN LStrip(Tail(s)) ELSE s

RECURSIVE RStrip(_)
RStrip(s) == IF s # <<>> /\ s[Len(s)] = " " THEN RStrip(SubSeq(s, 1, Len(s) - 1)) ELSE s

\* str.strip()
Strip(s) == RStrip(LStrip(s))

\* str.replace(' ', '_')
ReplaceSpaces(s) == [i \in DOMAIN s |-> IF s[i] = " " THEN "_" ELSE s[i]]

\* sequences over S of length lo..hi
SeqsOf(S, lo, hi) == UNION {[1..n -> S] : n \in lo..hi}

\* ---------------------------------------------------------------- models.py
ModuleTypes == {"starter", "assignment", "project", "extra"}

\* re.match(r'^[a-z0-9_]+$', slug)
SlugChars == {"a", "b", "_"}
SlugMatches(slug) == slug # <<>> /\ \A i \in DOMAIN slug : slug[i] \in SlugChars

\* ------------------------------------------------------ utils/validation.py
MaxNameLength == 100
MinDescriptionLength == 10
MaxDescriptionLength == 500
MinHoursX10 == 5
MaxHoursX10 == 400
LongHoursX10 == 200
BeginnerHoursX10 == 80
MaxConcepts == 15
MinObjectives == 2
MaxObjectives == 10
MinObjectiveLength == 10
MaxModuleCount == 10
MaxStarterModules == 2

When(cond, msg) == IF cond THEN <<msg>> ELSE <<>>

CountType(modules, t) == Cardinality({i \in DOMAIN modules : modules[i].type = t})

\* module_names = [m.name.lower().strip() for m in topic.modules]
NormalizedNames(modules) == [i \in DOMAIN modules |-> Strip(Lower(modules[i].name))]

HasDuplicates(names) == \E i, j \in DOMAIN names : i # j /\ names[i] = names[j]

\* the same check without the duplicate-name test
validate_topic_nodup(topic) ==
    LET errors == When(CountType(topic.modules, "starter") = 0,
                       "At least one starter module is required")
                  \o When(Len(topic.modules) > 1 /\ CountType(topic.modules, "assignment") = 0,
                          "Multi-module lessons need at least one assignment module")
    IN [is_valid |-> errors = <<>>, errors |-> errors, warnings |-> <<>>, suggestions |-> <<>>]

validate_topic(topic) ==
    LET nameErrors ==
            IF topic.name = <<>> \/ Len(Strip(topic.name)) = 0
            THEN <<"Topic name cannot be empty">>
            ELSE When(Len(topic.name) > MaxNameLength, "Topic name must be 100 characters or less")
        slugErrors ==
            IF topic.slug = <<>>
            THEN <<"Topic slug cannot be empty">>
            ELSE When(~SlugMatches(topic.slug),
                      "Topic slug must contain only lowercase letters, numbers, and underscores")
        descErrors ==
            IF topic.description_len < MinDescriptionLength
            THEN <<"Topic description must be at least 10 characters">>
            ELSE When(topic.description_len > MaxDescriptionLength,
                      "Topic description must be 500 characters or less")
        hoursErrors ==
            IF topic.estimated_hours_x10 < MinHoursX10
            THEN <<"Estimated hours must be at least 0.5">>
            ELSE When(topic.estimated_hours_x10 > MaxHoursX10, "Estimated hours must be 40 or less")
        hoursWarnings ==
            When(topic.estimated_hours_x10 >= MinHoursX10 /\ topic.estimated_hours_x10 <= MaxHoursX10
                 /\ topic.estimated_hours_x10 > LongHoursX10,
                 "Topic with more than 20 hours might be too long for a single lesson")
        conceptErrors ==
            When(Len(topic.concepts) = 0, "At least one concept is required")
            \o When(\E i \in DOMAIN topic.concepts : Strip(topic.concepts[i]) = <<>>,
                    "Empty concepts found at positions")
        conceptWarnings ==
            When(Len(topic.concepts) > MaxConcepts, "More than 15 concepts might make the lesson unfocused")
        objectiveErrors ==
            When(Len(topic.learning_objectives) < MinObjectives, "At least 2 learning objectives are required")
        objectiveWarnings ==
            When(Len(topic.learning_objectives) > MaxObjectives,
                 "More than 10 learning objectives might be overwhelming")
            \o When(\E i \in DOMAIN topic.learning_objectives :
                        topic.learning_objectives[i] < MinObjectiveLength,
                    "Learning objective is very short - consider adding more detail")
        moduleErrors ==
            When(Len(topic.modules) < 1, "At least 1 module is required")
        moduleWarnings ==
            When(Len(topic.modules) > MaxModuleCount, "More than 10 modules might make the lesson too complex")
        starters == CountType(topic.modules, "starter")
        assignments == CountType(topic.modules, "assignment")
        typeErrors ==
            IF topic.modules = <<>> THEN <<>>
            ELSE When(starters = 0, "At least one starter module is required")
                 \o When(Len(topic.modules) > 1 /\ assignments = 0,
                         "Multi-module lessons need at least one assignment module")
                 \o When(HasDuplicates(NormalizedNames(topic.modules)), "Duplicate module names found")
        typeWarnings ==
            When(topic.modules # <<>> /\ starters > MaxStarterModules,
                 "More than 2 starter modules might be excessive")
        suggestions ==
            When(topic.difficulty = "beginner" /\ topic.estimated_hours_x10 > BeginnerHoursX10,
                 "Consider breaking down beginner topics into smaller lessons")
            \o When(topic.prerequisites = 0 /\ topic.difficulty # "beginner",
                    "Consider adding prerequisites for non-beginner topics")
            \o When(CountType(topic.modules, "project") = 0,
                    "Consider adding a project module for hands-on practice")
        errors == nameErrors \o slugErrors \o descErrors \o hoursErrors \o conceptErrors
                  \o objectiveErrors \o moduleErrors \o typeErrors
        warnings == hoursWarnings \o conceptWarnings \o objectiveWarnings \o moduleWarnings
                    \o typeWarnings
    IN [is_valid |-> Len(errors) = 0, errors |-> errors, warnings |-> warnings,
        suggestions |-> suggestions]

\* ------------------------------------------------- inputs of validate_topic
ModuleNames == {<<"a">>, <<"A">>, <<"a", " ">>, <<"b">>, <<"a", " ", "b">>, <<"a", "_", "b">>}

ModuleSpecs == [name : ModuleNames, type : ModuleTypes]

\* the fields of a topic other than its modules; GoodFields passes every check
GoodFields ==
    [name |-> <<"a", " ", "b">>, slug |-> <<"a", "_", "b">>, description_len |-> 40,
     difficulty |-> "intermediate", estimated_hours_x10 |-> 40,
     concepts |-> << <<"a">> >>, learning_objectives |-> <<12, 15>>, prerequisites |-> 1]

FieldProfiles ==
    {GoodFields,
     [GoodFields EXCEPT !.name = <<" ">>],
     [GoodFields EXCEPT !.slug = <<"A", "b">>],
     [GoodFields EXCEPT !.slug = <<>>],
     [GoodFields EXCEPT !.description_len = 3],
     [GoodFields EXCEPT !.description_len = 501],
     [GoodFields EXCEPT !.estimated_hours_x10 = 2],
     [GoodFields EXCEPT !.estimated_hours_x10 = 410],
     [GoodFields EXCEPT !.estimated_hours_x10 = 250],
     [GoodFields EXCEPT !.concepts = <<>>],
     [GoodFields EXCEPT !.concepts = << <<"a">>, <<" ">> >>],
     [GoodFields EXCEPT !.learning_objectives = <<12>>],
     [GoodFields EXCEPT !.learning_objectives = <<12, 4>>],
     [GoodFields EXCEPT !.difficulty = "beginner", !.estimated_hours_x10 = 90],
     [GoodFields EXCEPT !.prerequisites = 0]}

MakeTopic(fields, modules) ==
    [name |-> fields.name, slug |-> fields.slug, description_len |-> fields.description_len,
     difficulty |-> fields.difficulty, estimated_hours_x10 |-> fields.estimated_hours_x10,
     concepts |-> fields.concepts, learning_objectives |-> fields.learning_objectives,
     prerequisites |-> fields.prerequisites, modules |-> modules]

ValidationInputs ==
    {MakeTopic(f, ms) : f \in FieldProfiles, ms \in SeqsOf(ModuleSpecs, 1, MaxModules)}

NoTopic == MakeTopic(GoodFields, <<>>)
NoValidation == [is_valid |-> FALSE, errors |-> <<>>, warnings |-> <<>>, suggestions |-> <<>>]

\* -------------------------------------------------- content.py: generator
ContentTypes == {"learning_path", "starter_example", "assignment_a", "assignment_b",
                 "test_starter", "test_assignment_a", "test_assignment_b", "extra_exercises"}

PythonContentTypes == {"starter_example", "assignment_a", "assignment_b",
                       "test_starter", "test_assignment_a", "test_assignment_b"}

\* What one provider call does: it raises (transport, auth, quota, timeout,
\* a response without choices or without content), or it returns a text:
\* an empty one, or one that parses, that parses after the repair, or that
\* does not parse even after the repair.
ProviderTexts == {"empty", "ok", "fixable", "broken"}
ProviderOutcomes == {"error"} \cup ProviderTexts

\* A content is the text of a file: where it came from (kind), what it was
\* made for, how it parses (syn), whether the syntax repair was applied to it
\* and, for a provider text, which provider call returned it (serial).
Text(kind, content_type, module_name, syn, serial) ==
    [kind |-> kind, content_type |-> content_type, module |-> module_name, syn |-> syn,
     repaired |-> FALSE, serial |-> serial]

NoText == Text("none", "none", <<>>, "ok", 0)

\* _create_cache_key
create_cache_key(content_type, topic, module_config) ==
    <<content_type, ReplaceSpaces(Lower(topic.name)), topic.difficulty,
      ReplaceSpaces(Lower(module_config.name)), module_config.type>>

\* ContentGenerationRequest
Request(content_type, topic, module_config, extra_context) ==
    [content_type |-> content_type, topic |-> topic, module |-> module_config,
     additional_context |-> extra_context]

\* a fallback whose text depends on the code handed over for testing
generate_fallback_content_contextual(request) ==
    [content |-> Text("fallback", request.content_type, request.module.name, "ok",
                      IF request.additional_context.has_code THEN 1 ELSE 0),
     model_used |-> "fallback", success |-> TRUE]

\* _generate_fallback_content: the per-type template strings are filled from
\* the topic and module fields only; with names made of letters, blanks and
\* underscores every Python fallback parses
generate_fallback_content(request) ==
    [content |-> Text("fallback", request.content_type, request.module.name, "ok", 0),
     model_used |-> "fallback", success |-> TRUE]

\* the except branch returning an error result instead of the fallback
generate_ai_content_nofallback(request, outcome, config, serial) ==
    IF outcome = "error"
    THEN [content |-> NoText, model_used |-> config.openai_model, success |-> FALSE]
    ELSE [content |-> Text("ai", request.content_type, request.module.name, outcome, serial),
          model_used |-> config.openai_model, success |-> TRUE]

\* _generate_ai_content: outcome is what the provider call did
generate_ai_content(request, outcome, config, serial) ==
    IF outcome = "error"
    THEN generate_fallback_content(request)
    ELSE [content |-> Text("ai", request.content_type, request.module.name, outcome, serial),
          model_used |-> config.openai_model, success |-> TRUE]

\* no ContentGenerationResponse yet
NoResponse == [content |-> NoText, model_used |-> "none", success |-> FALSE]

\* the cache lookup switched off
cache_lookup_never(config, cache, key) == FALSE

\* `self.config.enable_cache and cache_key in self._content_cache`
cache_lookup(config, cache, key) == config.enable_cache /\ key \in DOMAIN cache

CachePut(cache, key, response) ==
    [k \in DOMAIN cache \cup {key} |-> IF k = key THEN response ELSE cache[k]]

\* a choice that always takes the configured model
get_cost_optimal_model_configured(openai_model, current_content_type) == openai_model

\* _get_cost_optimal_model, given the value of self._current_content_type
\* ("unset" when the attribute does not exist yet)
get_cost_optimal_model(openai_model, current_content_type) ==
    IF openai_model = "gpt-4" /\ current_content_type # "unset"
       /\ current_content_type \notin {"learning_path", "project_assignment"}
    THEN "gpt-3.5-turbo"
    ELSE openai_model

Bump(stats, counter) == [stats EXCEPT ![counter] = @ + 1]

\* generate_content on the generator gen = [ai_enabled, cache, stats,
\* current_content_type, provider_calls, provider_failures]; outcome is what
\* the provider does if it is called.  Returns the response, the generator
\* afterwards, the source that served the call and the model named in the
\* provider call (_optimize_prompt_for_cost stores the content type while the
\* messages are built, create(model=self._get_cost_optimal_model()) reads it).
generate_content(gen, config, content_type, topic, module_config, extra_context, outcome) ==
    LET cache_key == create_cache_key(content_type, topic, module_config)
        request == Request(content_type, topic, module_config, extra_context)
    IN IF cache_lookup(config, gen.cache, cache_key)
       THEN [response |-> gen.cache[cache_key],
             gen |-> [gen EXCEPT !.stats = Bump(@, "cache_hits")],
             source |-> "cache", model |-> "none"]
       ELSE LET use_provider == gen.ai_enabled /\ config.use_ai
                response == IF use_provider
                            THEN generate_ai_content(request, outcome, config, gen.provider_calls + 1)
                            ELSE generate_fallback_content(request)
                stats == IF use_provider THEN Bump(gen.stats, "ai_calls")
                         ELSE Bump(gen.stats, "fallback_calls")
            IN [response |-> response,
                gen |-> [gen EXCEPT
                            !.stats = stats,
                            !.current_content_type =
                                IF use_provider THEN content_type ELSE @,
                            !.provider_calls = IF use_provider THEN @ + 1 ELSE @,
                            !.provider_failures =
                                IF use_provider /\ outcome = "error" THEN @ + 1 ELSE @,
                            !.cache = IF config.enable_cache
                                      THEN CachePut(@, cache_key, response) ELSE @],
                source |-> IF use_provider THEN "provider" ELSE "fallback",
                model |-> IF use_provider
                          THEN get_cost_optimal_model(
                                   config.openai_model,
                                   [gen EXCEPT !.current_content_type = content_type].current_content_type)
                          ELSE "none"]

\* ContentGenerator.__init__: the client exists only with use_ai, an API key
\* and an importable client package
NewGenerator(ai_enabled) ==
    [ai_enabled |-> ai_enabled, cache |-> <<>>,
     stats |-> [ai_calls |-> 0, cache_hits |-> 0, fallback_calls |-> 0],
     current_content_type |-> "unset", provider_calls |-> 0, provider_failures |-> 0]

GenerationConfigs ==
    [use_ai : BOOLEAN, enable_cache : BOOLEAN, openai_model : {"gpt-4", "gpt-3.5-turbo"},
     reference_lesson_dir : {FALSE}]

\* ---------------------------------------------- inputs of generate_content
RequestTopics ==
    {MakeTopic([GoodFields EXCEPT !.name = n], <<>>) : n \in {<<"a", " ", "b">>, <<"A", "_", "b">>}}
RequestModules == {[name |-> <<"a", " ", "b">>, type |-> "starter"],
                   [name |-> <<"A", "_", "b">>, type |-> "starter"]}
RequestTypes == {"learning_path", "assignment_a"}
RequestOutcomes == {"error", "empty", "ok"}

\* the record kept of one generate_content call: its arguments, what the
\* provider did ("none" when it was not called), the returned response, the
\* source that served it and the usage counters after the call
Call(content_type, tpc, module_config, extra_context, outcome, r) ==
    [content_type |-> content_type, topic_name |-> tpc.name, difficulty |-> tpc.difficulty,
     module |-> module_config, additional_context |-> extra_context, outcome |-> outcome,
     response |-> r.response, source |-> r.source, stats |-> r.gen.stats, model |-> r.model]

\* ------------------------------------------------ core.py: syntax repair
\* A text is a non-empty sequence of lines (str.split('\n')); a line is a
\* sequence of tokens.  QQQ is a triple-quote delimiter.
QQQ == "\"\"\""
Tokens == {"class ", "-", QQQ, "x", " "}
Lines == SeqsOf(Tokens, 0, MaxLineLen)
RepairInputs == SeqsOf(Lines, 1, MaxLines)

\* line.strip().startswith('class '): the keyword's own blank is stripped
\* when nothing but blanks follows it
StartsWithClass(line) == LET s == Strip(line) IN Len(s) >= 2 /\ s[1] = "class "

Contains(line, tok) == \E i \in DOMAIN line : line[i] = tok

\* line.count('"""')
CountTok(line, tok) == Cardinality({i \in DOMAIN line : line[i] = tok})

\* line.replace('-', '')
RECURSIVE RemoveTok(_, _)
RemoveTok(line, tok) ==
    IF line = <<>> THEN <<>>
    ELSE IF Head(line) = tok THEN RemoveTok(Tail(line), tok)
    ELSE <<Head(line)>> \o RemoveTok(Tail(line), tok)

\* one iteration of the loop of _fix_common_syntax_issues: the lines that
\* fixed_lines[i] splits into once the result is joined
FixLine(lines, i) ==
    LET line == lines[i]
        l1 == IF StartsWithClass(line) /\ Contains(line, "-") THEN RemoveTok(line, "-") ELSE line
        has_closing == \E j \in (i + 1)..Len(lines) : Contains(lines[j], QQQ)
    IN IF CountTok(l1, QQQ) = 1 /\ ~has_closing THEN <<l1, <<QQQ>> >> ELSE <<l1>>

RECURSIVE FixFrom(_, _)
FixFrom(lines, i) == IF i > Len(lines) THEN <<>> ELSE FixLine(lines, i) \o FixFrom(lines, i + 1)

fix_common_syntax_issues(lines) == FixFrom(lines, 1)

\* ------------------------------------------------ core.py: module assembly
\* files_to_generate of _generate_standard_module_files, in insertion order
FilesToGenerate ==
    << [filename |-> "learning_path.md", content_type |-> "learning_path",
        template |-> "learning_path.md.j2"],
       [filename |-> "starter_example.py", content_type |-> "starter_example",
        template |-> "assignment.py.j2"],
       [filename |-> "test_starter_example.py", content_type |-> "test_starter",
        template |-> "test_template.py.j2"],
       [filename |-> "assignment_a.py", content_type |-> "assignment_a",
        template |-> "assignment.py.j2"],
       [filename |-> "test_assignment_a.py", content_type |-> "test_assignment_a",
        template |-> "test_template.py.j2"],
       [filename |-> "assignment_b.py", content_type |-> "assignment_b",
        template |-> "assignment.py.j2"],
       [filename |-> "test_assignment_b.py", content_type |-> "test_assignment_b",
        template |-> "test_template.py.j2"],
       [filename |-> "extra_exercises.md", content_type |-> "extra_exercises",
        template |-> "extra_exercises.md.j2"] >>

\* filename.endswith('.md')
MarkdownFiles == {"learning_path.md", "extra_exercises.md"}
\* filename.startswith(('assignment_', 'starter_'))
CodeFiles == {"starter_example.py", "assignment_a.py", "assignment_b.py"}
\* filename.startswith('test_')
TestFiles == {"test_starter_example.py", "test_assignment_a.py", "test_assignment_b.py"}
\* filename.endswith('.py')
PyFiles == CodeFiles \cup TestFiles

\* filename.replace('test_', '', 1)
CodeFileOf(filename) ==
    CASE filename = "test_starter_example.py" -> "starter_example.py"
      [] filename = "test_assignment_a.py" -> "assignment_a.py"
      [] filename = "test_assignment_b.py" -> "assignment_b.py"
      [] OTHER -> filename

StandardTypes == {"starter", "assignment", "project"}

\* the config files without the ignore-file
ConfigFiles_noignore == <<"README.md", "requirements.txt", "pytest.ini", "Makefile", "setup.cfg">>

\* config_files of _generate_lesson_config_files, in insertion order
ConfigFiles == <<"README.md", "requirements.txt", "pytest.ini", "Makefile", "setup.cfg", ".gitignore">>

\* output_dir / topic.slug
LessonDir == <<"lesson">>

\* lesson_dir / f"module_{module_config.name.lower().replace(' ', '_')}"
ModuleDir(module_config) == <<"module_">> \o ReplaceSpaces(Lower(module_config.name))

\* storage: the directories made and the text of every file written
EmptyDisk == [dirs |-> {}, files |-> <<>>]

\* Path.write_text
WriteFile(dsk, path, content) ==
    [dsk EXCEPT !.files = [q \in DOMAIN @ \cup {path} |-> IF q = path THEN content ELSE @[q]]]

\* Path.mkdir(parents=True, exist_ok=True)
MakeDir(dsk, dir) == [dsk EXCEPT !.dirs = @ \cup {dir}]

\* GeneratedFile
GeneratedFile(path, content) == [path |-> path, content |-> content]

\* extra_context of a request: the code file's text for a test file
NoContext == [has_code |-> FALSE, code_to_test |-> NoText]
CodeContext(content) == [has_code |-> TRUE, code_to_test |-> content]

\* a selection that does not look at code_to_test
Truthy_any(extra_context) == TRUE

\* extra_context.get('code_to_test'): absent or the empty string is falsy
Truthy(extra_context) == extra_context.has_code /\ extra_context.code_to_test.syn # "empty"

\* _validate_python_syntax (ast.parse): the empty text parses
validate_python_syntax(content) ==
    \/ content.syn \in {"ok", "empty"}
    \/ content.syn = "fixable" /\ content.repaired

\* the text left as it is, no repair
Repaired_none(content) == content

\* _fix_common_syntax_issues on a file's text
Repaired(content) == [content EXCEPT !.repaired = TRUE]

\* TemplateEngine.render_template: syn is how the rendered text parses
RenderTemplate(f, module_config, syn) == Text("template", f.content_type, module_config.name, syn, 0)

\* the minimal fallback file of the except branch
Placeholder(f, module_config) == Text("placeholder", f.content_type, module_config.name, "ok", 0)

\* What the surroundings do during one file: the provider call (if made),
\* template_exists ("error": get_template raises something other than
\* TemplateNotFound), how the rendered template parses, and the storage
\* ("transient": the first write of the file fails, "down": every write fails).
TemplateStates == {"exists", "missing", "error"}
StorageStates == {"ok", "transient", "down"}
FileEnvs == [provider : ProviderOutcomes \cup {"none"}, template : TemplateStates,
             rendered : {"ok", "fixable", "broken"}, storage : StorageStates]

Put(map, key, value) == [k \in DOMAIN map \cup {key} |-> IF k = key THEN value ELSE map[k]]

\* the code file's text kept aside before the syntax repair
KeepForTests_unrepaired(selected, checked) == selected

\* generated_content[filename] = content, after the syntax check and repair
KeepForTests(selected, checked) == checked

\* the except branch without the placeholder
HandleFailure_drop(module_result_files, placeholder_file) == module_result_files

\* the except branch: result.files.append(generated_file)
HandleFailure(module_result_files, placeholder_file) == Append(module_result_files, placeholder_file)

\* One iteration of the loop of _generate_standard_module_files, for the file
\* f under the surroundings e.  escaped: the placeholder could not be written
\* and the exception left the loop.
GenerateFileStep(g, cfg, tpc, module_config, generated_content, files, dsk, f, e) ==
    LET filename == f.filename
        path == <<ModuleDir(module_config), filename>>
        code_file == CodeFileOf(filename)
        extra_context ==
            IF filename \in TestFiles /\ code_file \in DOMAIN generated_content
            THEN CodeContext(generated_content[code_file]) ELSE NoContext
        r == generate_content(g, cfg, f.content_type, tpc, module_config, extra_context, e.provider)
        from_ai == r.response.model_used # "fallback"
        use_response ==
            \/ filename \in MarkdownFiles /\ from_ai
            \/ filename \in CodeFiles /\ from_ai
            \/ filename \in TestFiles /\ Truthy(extra_context) /\ from_ai
        template_raises == ~use_response /\ e.template = "error"
        selected ==
            IF use_response THEN r.response.content
            ELSE IF e.template = "exists" THEN RenderTemplate(f, module_config, e.rendered)
            ELSE r.response.content
        checked ==
            IF filename \in PyFiles /\ ~validate_python_syntax(selected)
            THEN Repaired(selected) ELSE selected
        raised == IF template_raises THEN "template"
                  ELSE IF e.storage # "ok" THEN "write" ELSE "none"
        placeholder_written ==
            IF raised = "write" THEN e.storage = "transient" ELSE e.storage = "ok"
        placeholder == Placeholder(f, module_config)
    IN [gen |-> r.gen,
        generated_content |->
            IF raised = "template" THEN generated_content
            ELSE Put(generated_content, filename, KeepForTests(selected, checked)),
        files |->
            IF raised = "none" THEN Append(files, GeneratedFile(path, checked))
            ELSE IF placeholder_written
            THEN HandleFailure(files, GeneratedFile(path, placeholder))
            ELSE files,
        disk |->
            IF raised = "none" THEN WriteFile(dsk, path, checked)
            ELSE IF placeholder_written THEN WriteFile(dsk, path, placeholder)
            ELSE dsk,
        escaped |-> raised # "none" /\ ~placeholder_written,
        log |-> [filename |-> filename, extra_context |-> extra_context, raised |-> raised,
                 source |-> r.source, outcome |-> e.provider, model_used |-> r.response.model_used,
                 response |-> r.response.content, template |-> e.template,
                 rendered |-> RenderTemplate(f, module_config, e.rendered),
                 selected |-> IF template_raises THEN NoText ELSE selected,
                 checks |-> IF template_raises \/ filename \notin PyFiles THEN 0
                            ELSE IF validate_python_syntax(selected) THEN 1 ELSE 2,
                 repairs |-> IF template_raises \/ filename \notin PyFiles
                                \/ validate_python_syntax(selected) THEN 0 ELSE 1],
        relevant |->
            /\ (use_response => e.template = "exists")
            /\ (use_response \/ e.template # "exists" \/ filename \notin PyFiles => e.rendered = "ok")
            /\ (raised = "template" => e.storage # "transient")]

\* ModuleGenerationResult
ModuleResult(module_config, success, files, error) ==
    [module_name |-> module_config.name, success |-> success, files |-> files, error |-> error]

NoModuleResult == [module_name |-> <<>>, success |-> FALSE, files |-> <<>>, error |-> "none"]

\* _generate_extra_module_files
ExtraText(module_config) == Text("static", "extra_exercises", module_config.name, "ok", 0)

\* ----------------------------------------------------------- quality.py
\* What can go wrong while the lesson directory is inspected: the scan for
\* .py files raises (caught in validate_lesson), the scan for tests raises
\* (caught in _validate_tests), the walk of _calculate_quality_metrics raises
\* at its first entry or after its last one (caught there).
QAFaults == {"none", "scan_error", "tests_error", "walk_error_first", "walk_error_last"}

PathsOf(dsk, names) == {q \in DOMAIN dsk.files : q[2] \in names}

SyntaxPoints == 3
TestPoints == 2
MaxScore == 10

\* _calculate_quality_score, in tenths
calculate_quality_score(python_files_valid, tests_executable, metrics) ==
    LET points ==
            (IF python_files_valid THEN SyntaxPoints ELSE 0)
            + (IF tests_executable THEN TestPoints ELSE 0)
            + (IF metrics.has_readme THEN 1 ELSE 0)
            + (IF metrics.has_requirements THEN 1 ELSE 0)
            + (IF metrics.has_makefile THEN 1 ELSE 0)
            + (IF metrics.python_files > 0 /\ 10 * metrics.test_files >= 4 * metrics.python_files
               THEN 2
               ELSE IF metrics.python_files > 0 /\ 10 * metrics.test_files >= 2 * metrics.python_files
               THEN 1 ELSE 0)
    IN IF points > MaxScore THEN MaxScore ELSE points

NoMetrics == [python_files |-> 0, test_files |-> 0, has_readme |-> FALSE,
              has_requirements |-> FALSE, has_makefile |-> FALSE]

\* QualityAssurance.validate_lesson on the lesson directory
validate_lesson(dsk, fault) ==
    LET python_files_valid ==
            \A q \in PathsOf(dsk, PyFiles) : validate_python_syntax(dsk.files[q])
        tests_executable == fault # "tests_error" /\ PathsOf(dsk, TestFiles) # {}
        counted == [NoMetrics EXCEPT !.python_files = Cardinality(PathsOf(dsk, PyFiles)),
                                     !.test_files = Cardinality(PathsOf(dsk, TestFiles))]
        metrics ==
            IF fault = "walk_error_first" THEN NoMetrics
            ELSE IF fault = "walk_error_last" THEN counted
            ELSE [counted EXCEPT !.has_readme = <<LessonDir, "README.md">> \in DOMAIN dsk.files,
                                 !.has_requirements = <<LessonDir, "requirements.txt">> \in DOMAIN dsk.files,
                                 !.has_makefile = <<LessonDir, "Makefile">> \in DOMAIN dsk.files]
    IN IF fault = "scan_error"
       THEN [python_files_valid |-> TRUE, tests_executable |-> TRUE, quality_score_x10 |-> 0,
             issues |-> 1]
       ELSE [python_files_valid |-> python_files_valid, tests_executable |-> tests_executable,
             quality_score_x10 |-> calculate_quality_score(python_files_valid, tests_executable, metrics),
             issues |-> 0]

NoReport == [python_files_valid |-> FALSE, tests_executable |-> FALSE, quality_score_x10 |-> -1,
             issues |-> 0]

\* quality_report.quality_score < 0.5, in tenths
QualityThreshold == 5

\* ------------------------------------------- core.py: lesson orchestration
NoError == [msg |-> "none", module |-> <<>>, score_x10 |-> -1, details |-> <<>>]
ErrorOf(msg) == [NoError EXCEPT !.msg = msg]

\* LessonGenerationResult
LessonResult(success, error) ==
    [success |-> success, error |-> error, modules |-> <<>>, config_files |-> <<>>,
     quality_report |-> NoReport]

\* a failure result that does not list the validation errors
ValidationFailure_noerrors(validation_result) ==
    LessonResult(FALSE, ErrorOf("Topic validation failed"))

\* the early return of generate_lesson for an invalid topic
ValidationFailure(validation_result) ==
    [LessonResult(FALSE, ErrorOf("Topic validation failed"))
        EXCEPT !.error.details = validation_result.errors]

\* a failure result without a message
UnexpectedError_silent == LessonResult(FALSE, NoError)

\* the except branch of generate_lesson: a fresh failure result
UnexpectedError == LessonResult(FALSE, ErrorOf("Unexpected error"))

\* a loop body whose later failure overwrites the error
AppendModule_last(res, module_result, module_config) ==
    [res EXCEPT !.modules = Append(@, module_result),
                !.success = @ /\ module_result.success,
                !.error = IF ~module_result.success
                          THEN [NoError EXCEPT !.msg = "Failed to generate module",
                                               !.module = module_config.name]
                          ELSE @]

\* the body of the module loop after _generate_module returned
AppendModule(res, module_result, module_config) ==
    [res EXCEPT !.modules = Append(@, module_result),
                !.success = @ /\ module_result.success,
                !.error = IF ~module_result.success /\ @ = NoError
                          THEN [NoError EXCEPT !.msg = "Failed to generate module",
                                               !.module = module_config.name]
                          ELSE @]

\* a gate that lets every score pass
QualityGate_open(res) == res

\* `if quality_report.quality_score < 0.5`
QualityGate(res) ==
    IF res.quality_report.quality_score_x10 < QualityThreshold
    THEN [res EXCEPT !.success = FALSE,
                     !.error = [NoError EXCEPT !.msg = "Quality score too low",
                                               !.score_x10 = res.quality_report.quality_score_x10]]
    ELSE res

\* ------------------------------------------------ inputs of generate_lesson
Starter(n) == [name |-> n, type |-> "starter"]
Assignment(n) == [name |-> n, type |-> "assignment"]
Extra(n) == [name |-> n, type |-> "extra"]

LessonTopics ==
    {MakeTopic(GoodFields, << Starter(<<"a", " ", "b">>) >>),
     MakeTopic(GoodFields, << Starter(<<"a">>), Assignment(<<"b">>), Extra(<<"a", "b">>) >>),
     MakeTopic(GoodFields, << Assignment(<<"a">>) >>),
     MakeTopic(GoodFields, << Starter(<<"a">>), Extra(<<"b">>) >>),
     MakeTopic(GoodFields, << Starter(<<"a">>), Assignment(<<"A">>) >>),
     MakeTopic([GoodFields EXCEPT !.slug = <<"A", "b">>], << Starter(<<"a">>) >>)}

\* ------------------------------------------------------------------- state
VARIABLES vTopic, vResult, vpc,        \* validate_topic: argument, result, position
          rIn, rOnce, rTwice, rpc,     \* syntax repair: input, repair(x), repair(repair(x))
          config,                      \* GenerationConfig
          gen,                         \* ContentGenerator: ai_enabled, cache, stats, ...
          calls,                       \* the generate_content calls made so far
          topic,                       \* generate_lesson: the argument
          pc,                          \* generate_lesson: the position in the code
          modIdx, fileIdx,             \* the module and the file being generated
          result,                      \* the LessonGenerationResult
          modResult,                   \* the ModuleGenerationResult being filled
          generated_content,           \* filename -> text, of the module being filled
          fileLog,                     \* what happened for each file of that module
          disk,                        \* the output storage
          extractions,                 \* template extractions started
          provider_up,                 \* whether the provider usually answers
          faults,                      \* departures of the surroundings so far
          ioFaults                     \* storage operations that failed so far

validateVars == <<vTopic, vResult, vpc>>
repairVars == <<rIn, rOnce, rTwice, rpc>>
contentVars == <<config, gen, calls>>
lessonVars == <<topic, pc, modIdx, fileIdx, result, modResult, generated_content, fileLog, disk,
                extractions, provider_up, faults, ioFaults>>

VARIABLES wpc,                         \* one provider call: the position in the code
          wReq,                        \* its request and what the provider will do
          clock,                       \* seconds since the call was made
          wResult                      \* the response of _generate_ai_content

VARIABLES apc,                         \* a test file on the template path: the position
          aIn,                         \* the code under test, the content type, the template
          aOut                         \* the analysis and the class the test file names

VARIABLES upc,                         \* _run_lesson_generation: the position in the code
          uIn,                         \* its arguments: number of topics, modules_count
          uI,                          \* the index of the topic in progress
          uStep,                       \* the index of the preparation step
          uStatus,                     \* the status last passed to update_task_status
          uLog,                        \* every progress percentage passed, in order
          uResults                     \* all_results: the generation result of each topic

VARIABLES tPos,                         \* per thread: the position in _generate_ai_content
          tRuns,                       \* per thread: the content types its run asks for
          tIdx,                        \* per thread: the index of the call in progress
          tSeen,                       \* per thread: model and max_tokens of each call made
          tLoad,                       \* per thread: the counter value read by `+= 1`
          shared                       \* the generator both runs use

VARIABLES cpc,                         \* topic creation: the position
          cIn,                         \* the name, difficulty and modules_count given
          cOut                         \* the slug, the slug of the slug, the topic, its validation
VARIABLES kpc,                         \* the create command: the position
          kArgs,                       \* its options and arguments
          kExit,                       \* the exit status, -1 while it runs
          kCalls                       \* the generate_lesson calls made so far
VARIABLES active_connections,          \* WebSocketManager: lesson_id -> set of sockets
          sTasks,                      \* the coroutines in flight
          sLast,                       \* the step taken last: operation, socket, lesson_id
          sFailed                      \* <<socket, lesson_id>>: a send failed since it was registered

waitVars == <<wpc, wReq, clock, wResult>>
analyzeVars == <<apc, aIn, aOut>>
webVars == <<upc, uIn, uI, uStep, uStatus, uLog, uResults>>
asyncVars == <<tPos, tRuns, tIdx, tSeen, tLoad, shared>>
cliVars == <<cpc, cIn, cOut>>
createVars == <<kpc, kArgs, kExit, kCalls>>
sockVars == <<active_connections, sTasks, sLast, sFailed>>
moreVars == <<createVars, sockVars>>
laterVars == <<webVars, asyncVars, cliVars, moreVars>>
extVars == <<waitVars, analyzeVars, laterVars>>
coreVars == <<validateVars, repairVars, contentVars, lessonVars>>
vars == <<coreVars, extVars>>

IdleValidate == vTopic = NoTopic /\ vResult = NoValidation /\ vpc = "idle"
IdleRepair == rIn = << <<>> >> /\ rOnce = << <<>> >> /\ rTwice = << <<>> >> /\ rpc = "idle"
IdleContent ==
    /\ config = [use_ai |-> FALSE, enable_cache |-> TRUE, openai_model |-> "gpt-4",
                 reference_lesson_dir |-> FALSE]
    /\ gen = NewGenerator(FALSE)
    /\ calls = <<>>
IdleLesson ==
    /\ topic = NoTopic /\ pc = "idle" /\ modIdx = 0 /\ fileIdx = 0
    /\ result = LessonResult(FALSE, NoError) /\ modResult = NoModuleResult
    /\ generated_content = <<>> /\ fileLog = <<>> /\ disk = EmptyDisk
    /\ extractions = 0 /\ provider_up = FALSE /\ faults = 0 /\ ioFaults = 0

IdleWait ==
    /\ wpc = "idle" /\ clock = 0 /\ wResult = NoResponse
    /\ wReq = [content_type |-> "none", delay |-> 0, outcome |-> "none"]
IdleAnalyze ==
    /\ apc = "idle"
    /\ aIn = [code |-> [parses |-> TRUE, classes |-> <<>>, mention |-> "none"],
              content_type |-> "none", template |-> "exists"]
    /\ aOut = [class_name |-> "none", test_methods |-> <<>>, file_class |-> "none",
               source |-> "none"]
IdleWeb ==
    /\ upc = "idle" /\ uI = 0 /\ uStep = 0 /\ uStatus = "pending" /\ uLog = <<>> /\ uResults = <<>>
    /\ uIn = [topics |-> 0, modules_count |-> "none"]
IdleAsync ==
    /\ tPos = <<>> /\ tRuns = <<>> /\ tIdx = <<>> /\ tSeen = <<>> /\ tLoad = <<>>
    /\ shared = [openai_model |-> "none", current_content_type |-> "unset", ai_calls |-> 0]
NoOutcome == [raised |-> FALSE, value |-> <<>>]
IdleCli ==
    /\ cpc = "idle"
    /\ cIn = [body |-> <<>>, fill |-> 0, pad |-> 0, difficulty |-> "none", modules_count |-> 0]
    /\ cOut = [slug |-> NoOutcome, again |-> NoOutcome, topic |-> NoOutcome,
               validation |-> NoValidation]
IdleCreate ==
    /\ kpc = "idle" /\ kExit = -1 /\ kCalls = 0
    /\ kArgs = [no_ai |-> FALSE, strict_ai |-> TRUE, openai_api_key |-> FALSE, output |-> "ok",
                modules |-> 0, config |-> FALSE, topics |-> <<>>, generator |-> "ok"]
NoStep == [op |-> "none", websocket |-> "none", lesson_id |-> "none", outcome |-> "none"]
IdleSock == active_connections = <<>> /\ sTasks = {} /\ sLast = NoStep /\ sFailed = {}
IdleMore == IdleCreate /\ IdleSock
IdleLater == IdleWeb /\ IdleAsync /\ IdleCli /\ IdleMore
IdleExt == IdleWait /\ IdleAnalyze /\ IdleLater
IdleCore == IdleValidate /\ IdleRepair /\ IdleContent /\ IdleLesson

\* ------------------------------------------ specification: validate_topic
InitValidate ==
    /\ vTopic \in ValidationInputs
    /\ vResult = NoValidation
    /\ vpc = "input"
    /\ IdleRepair
    /\ IdleContent
    /\ IdleLesson
    /\ IdleExt

ValidateTopic ==
    /\ vpc = "input"
    /\ vResult' = validate_topic(vTopic)
    /\ vpc' = "validated"
    /\ UNCHANGED <<vTopic, repairVars, contentVars, lessonVars>>
    /\ UNCHANGED extVars

NextValidate == ValidateTopic

SpecValidate == InitValidate /\ [][NextValidate]_vars

\* ------------------------------------------- specification: syntax repair
InitRepair ==
    /\ rIn \in RepairInputs
    /\ rOnce = << <<>> >>
    /\ rTwice = << <<>> >>
    /\ rpc = "input"
    /\ IdleValidate
    /\ IdleContent
    /\ IdleLesson
    /\ IdleExt

RepairOnce ==
    /\ rpc = "input"
    /\ rOnce' = fix_common_syntax_issues(rIn)
    /\ rpc' = "once"
    /\ UNCHANGED <<rIn, rTwice, validateVars, contentVars, lessonVars>>
    /\ UNCHANGED extVars

RepairTwice ==
    /\ rpc = "once"
    /\ rTwice' = fix_common_syntax_issues(rOnce)
    /\ rpc' = "twice"
    /\ UNCHANGED <<rIn, rOnce, validateVars, contentVars, lessonVars>>
    /\ UNCHANGED extVars

NextRepair == RepairOnce \/ RepairTwice

SpecRepair == InitRepair /\ [][NextRepair]_vars

\* ----------------------------------------- specification: ContentGenerator
InitContent ==
    /\ config \in GenerationConfigs
    /\ \E ai \in BOOLEAN : (ai => config.use_ai) /\ gen = NewGenerator(ai)
    /\ calls = <<>>
    /\ IdleValidate
    /\ IdleRepair
    /\ IdleLesson
    /\ IdleExt

\* the outcomes to draw for a call: none when the provider is not reached
OutcomesFor(content_type, tpc, module_config, outcomes) ==
    IF cache_lookup(config, gen.cache, create_cache_key(content_type, tpc, module_config))
       \/ ~(gen.ai_enabled /\ config.use_ai)
    THEN {"none"} ELSE outcomes

GenerateContent ==
    /\ Len(calls) < MaxCalls
    /\ \E content_type \in RequestTypes, tpc \in RequestTopics, module_config \in RequestModules :
         \E outcome \in OutcomesFor(content_type, tpc, module_config, RequestOutcomes) :
            LET r == generate_content(gen, config, content_type, tpc, module_config, <<>>, outcome)
            IN /\ gen' = r.gen
               /\ calls' = Append(calls, Call(content_type, tpc, module_config, <<>>, outcome, r))
    /\ UNCHANGED <<config, validateVars, repairVars, lessonVars>>
    /\ UNCHANGED extVars

NextContent == GenerateContent

SpecContent == InitContent /\ [][NextContent]_vars

\* ------------------------------------------ specification: generate_lesson
LessonConfigs ==
    [use_ai : BOOLEAN, enable_cache : {TRUE}, openai_model : {"gpt-4"},
     reference_lesson_dir : {TRUE}]

Init ==
    /\ topic \in LessonTopics
    /\ config \in LessonConfigs
    /\ gen = NewGenerator(config.use_ai)
    /\ provider_up \in (IF config.use_ai THEN BOOLEAN ELSE {FALSE})
    /\ calls = <<>>
    /\ pc = "start" /\ modIdx = 0 /\ fileIdx = 0
    /\ result = LessonResult(FALSE, NoError) /\ modResult = NoModuleResult
    /\ generated_content = <<>> /\ fileLog = <<>> /\ disk = EmptyDisk
    /\ extractions = 0 /\ faults = 0 /\ ioFaults = 0
    /\ IdleValidate
    /\ IdleRepair
    /\ IdleExt

\* what a storage operation may do within the allowance of departures
StorageOutcomes == IF faults < MaxEnvFaults THEN {"ok", "down"} ELSE {"ok"}
StorageCost(st) == IF st = "ok" THEN 0 ELSE 1

\* the departures of one file's surroundings from the usual ones
EnvCost(e) ==
    (IF e.provider \notin {"none", IF provider_up THEN "ok" ELSE "error"} THEN 1 ELSE 0)
    + (IF e.template # "exists" THEN 1 ELSE 0)
    + (IF e.rendered # "ok" THEN 1 ELSE 0)
    + (IF e.storage # "ok" THEN 1 ELSE 0)

\* generate_lesson up to the module loop: validation, template extraction,
\* lesson directory, the result object
StartLesson ==
    /\ pc = "start"
    /\ LET validation_result == validate_topic(topic)
       IN IF ~validation_result.is_valid
          THEN /\ result' = ValidationFailure(validation_result)
               /\ pc' = "done"
               /\ UNCHANGED <<modIdx, disk, extractions, faults, ioFaults>>
          ELSE /\ extractions' = IF config.reference_lesson_dir THEN extractions + 1 ELSE extractions
               /\ \E st \in StorageOutcomes :
                    /\ faults' = faults + StorageCost(st)
                    /\ ioFaults' = ioFaults + StorageCost(st)
                    /\ IF st = "ok"
                       THEN /\ disk' = MakeDir(disk, LessonDir)
                            /\ result' = LessonResult(TRUE, NoError)
                            /\ modIdx' = 1
                            /\ pc' = "module"
                       ELSE /\ result' = UnexpectedError
                            /\ pc' = "done"
                            /\ UNCHANGED <<modIdx, disk>>
    /\ UNCHANGED <<topic, fileIdx, modResult, generated_content, fileLog, provider_up,
                   validateVars, repairVars, contentVars>>
    /\ UNCHANGED extVars

\* the module loop of generate_lesson once _generate_module returned
ModuleDone(module_result) ==
    /\ result' = AppendModule(result, module_result, topic.modules[modIdx])
    /\ IF modIdx = Len(topic.modules)
       THEN pc' = "config" /\ modIdx' = modIdx
       ELSE pc' = "module" /\ modIdx' = modIdx + 1

\* _generate_module up to the first file: the module directory, the result
\* object and, for an extra module, its only file
\* (after a module failed, the storage that failed it may still be down: that
\* is no new departure)
BeginModule ==
    /\ pc = "module"
    /\ LET module_config == topic.modules[modIdx]
           module_dir == ModuleDir(module_config)
       IN \E mk \in (IF result.success THEN StorageOutcomes ELSE {"ok", "down"}) :
            IF mk # "ok"
            THEN /\ faults' = faults + (IF result.success THEN 1 ELSE 0)
                 /\ ioFaults' = ioFaults + 1
                 /\ modResult' = ModuleResult(module_config, FALSE, <<>>, "mkdir failed")
                 /\ ModuleDone(modResult')
                 /\ generated_content' = <<>>
                 /\ fileLog' = <<>>
                 /\ UNCHANGED <<disk, fileIdx>>
            ELSE IF module_config.type \in StandardTypes
            THEN /\ disk' = MakeDir(disk, module_dir)
                 /\ modResult' = ModuleResult(module_config, TRUE, <<>>, "none")
                 /\ generated_content' = <<>>
                 /\ fileLog' = <<>>
                 /\ fileIdx' = 1
                 /\ pc' = "file"
                 /\ UNCHANGED <<result, modIdx, faults, ioFaults>>
            ELSE \E wr \in StorageOutcomes :
                    LET path == <<module_dir, "extra_exercises.md">>
                        content == ExtraText(module_config)
                    IN /\ faults' = faults + StorageCost(wr)
                       /\ ioFaults' = ioFaults + StorageCost(wr)
                       /\ IF wr = "ok"
                          THEN /\ disk' = WriteFile(MakeDir(disk, module_dir), path, content)
                               /\ modResult' = ModuleResult(module_config, TRUE,
                                                            <<GeneratedFile(path, content)>>, "none")
                          ELSE /\ disk' = MakeDir(disk, module_dir)
                               /\ modResult' = ModuleResult(module_config, FALSE, <<>>, "write failed")
                       /\ ModuleDone(modResult')
                       /\ generated_content' = <<>>
                       /\ fileLog' = <<>>
                       /\ UNCHANGED fileIdx
    /\ UNCHANGED <<topic, extractions, provider_up, validateVars, repairVars, contentVars>>
    /\ UNCHANGED extVars

\* one iteration of the file loop of _generate_standard_module_files and,
\* after the last file or an escaping exception, the return of _generate_module
GenerateFile ==
    /\ pc = "file"
    /\ LET module_config == topic.modules[modIdx]
           f == FilesToGenerate[fileIdx]
       IN \E e \in FileEnvs :
            /\ faults + EnvCost(e) <= MaxEnvFaults
            /\ e.provider \in OutcomesFor(f.content_type, topic, module_config, ProviderOutcomes)
            /\ LET s == GenerateFileStep(gen, config, topic, module_config, generated_content,
                                         modResult.files, disk, f, e)
               IN /\ s.relevant
                  /\ gen' = s.gen
                  /\ disk' = s.disk
                  /\ faults' = faults + EnvCost(e)
                  /\ ioFaults' = ioFaults + StorageCost(e.storage)
                  /\ generated_content' = s.generated_content
                  /\ fileLog' = Append(fileLog, s.log)
                  /\ IF s.escaped
                     THEN /\ modResult' = ModuleResult(module_config, FALSE, <<>>, "write failed")
                          /\ ModuleDone(modResult')
                          /\ UNCHANGED fileIdx
                     ELSE /\ modResult' = [modResult EXCEPT !.files = s.files]
                          /\ IF fileIdx = Len(FilesToGenerate)
                             THEN ModuleDone(modResult') /\ UNCHANGED fileIdx
                             ELSE fileIdx' = fileIdx + 1 /\ UNCHANGED <<result, modIdx, pc>>
    /\ UNCHANGED <<topic, extractions, provider_up, config, calls, validateVars, repairVars>>
    /\ UNCHANGED extVars

\* `if result.success: self._generate_lesson_config_files(...)`; a write
\* that fails after n files leaves generate_lesson through its except branch
WriteConfigFiles ==
    /\ pc = "config"
    /\ IF ~result.success
       THEN pc' = "qa" /\ UNCHANGED <<result, disk, faults, ioFaults>>
       ELSE \E n \in (IF faults < MaxEnvFaults THEN 0..Len(ConfigFiles) ELSE {Len(ConfigFiles)}) :
              LET written == SubSeq(ConfigFiles, 1, n)
                  texts == [i \in 1..n |-> Text("static", written[i], <<>>, "ok", 0)]
                  paths == {<<LessonDir, written[i]>> : i \in 1..n}
              IN /\ disk' = [disk EXCEPT !.files =
                                [q \in DOMAIN @ \cup paths |->
                                    IF q \in paths THEN Text("static", q[2], <<>>, "ok", 0) ELSE @[q]]]
                 /\ IF n = Len(ConfigFiles)
                    THEN /\ result' = [result EXCEPT !.config_files =
                                          [i \in 1..n |-> GeneratedFile(<<LessonDir, written[i]>>, texts[i])]]
                         /\ pc' = "qa"
                         /\ UNCHANGED <<faults, ioFaults>>
                    ELSE /\ result' = UnexpectedError
                         /\ pc' = "done"
                         /\ faults' = faults + 1
                         /\ ioFaults' = ioFaults + 1
    /\ UNCHANGED <<topic, modIdx, fileIdx, modResult, generated_content, fileLog, extractions,
                   provider_up, validateVars, repairVars, contentVars>>
    /\ UNCHANGED extVars

\* `if result.success:` quality assurance and the quality gate; the return
RunQualityAssurance ==
    /\ pc = "qa"
    /\ IF ~result.success
       THEN UNCHANGED <<result, ioFaults>>
       ELSE \E fault \in QAFaults :
              /\ result' = QualityGate([result EXCEPT !.quality_report = validate_lesson(disk, fault)])
              /\ ioFaults' = ioFaults + (IF fault = "none" THEN 0 ELSE 1)
    /\ pc' = "done"
    /\ UNCHANGED <<topic, modIdx, fileIdx, modResult, generated_content, fileLog, disk, extractions,
                   provider_up, faults, validateVars, repairVars, contentVars>>
    /\ UNCHANGED extVars

Next == StartLesson \/ BeginModule \/ GenerateFile \/ WriteConfigFiles \/ RunQualityAssurance

Spec == Init /\ [][Next]_vars

\* ------------------- specification: fallback generations among other calls
\* the requests drawn: a markdown and a test content type, with and without
\* the text of a code file as additional_context
FallbackTypes == {"learning_path", "test_assignment_a"}
FallbackContexts == {NoContext, CodeContext(Text("ai", "assignment_a", <<"a">>, "ok", 1))}
FallbackOutcomes == {"error", "ok"}

InitFallback ==
    /\ config \in GenerationConfigs
    /\ \E ai \in BOOLEAN : (ai => config.use_ai) /\ gen = NewGenerator(ai)
    /\ calls = <<>>
    /\ IdleValidate
    /\ IdleRepair
    /\ IdleLesson
    /\ IdleExt

\* generate_content called with an additional_context
GenerateWithContext ==
    /\ Len(calls) < MaxCalls
    /\ \E content_type \in FallbackTypes, tpc \in RequestTopics, extra_context \in FallbackContexts :
         LET module_config == Starter(<<"a">>)
         IN \E outcome \in OutcomesFor(content_type, tpc, module_config, FallbackOutcomes) :
               LET r == generate_content(gen, config, content_type, tpc, module_config,
                                         extra_context, outcome)
               IN /\ gen' = r.gen
                  /\ calls' = Append(calls, Call(content_type, tpc, module_config, extra_context,
                                                 outcome, r))
    /\ UNCHANGED <<config, validateVars, repairVars, lessonVars, extVars>>

NextFallback == GenerateWithContext

SpecFallback == InitFallback /\ [][NextFallback]_vars

\* ------------- specification: a test file written from template or fallback
\* The code handed over as code_to_test: whether ast.parse accepts it, the
\* classes it declares in source order, each with its methods in order, and a
\* "class <name>" that its comments or strings mention.
CodesToTest ==
    [parses : BOOLEAN,
     classes : SeqsOf([name : {"Foo", "Bar"},
                       methods : {<<>>, <<"bar">>, <<"_hid", "bar">>}], 0, MaxClasses),
     mention : {"none", "Baz"}]

\* the generic class name of _analyze_code_for_testing for a content type
GenericClassName(content_type) ==
    IF content_type = "test_starter" THEN "StarterExample"
    ELSE IF content_type = "test_assignment_a" THEN "AssignmentA"
    ELSE IF content_type = "test_assignment_b" THEN "AssignmentB"
    ELSE "TestClass"

\* the public methods of a class (not item.name.startswith('_')), one test
\* method each
PublicMethods(methods) == SelectSeq(methods, LAMBDA m : m \notin {"_hid"})

\* _analyze_code_for_testing: the first class of the parse tree, else the
\* first "class <name>" the regular expression finds, else the generic name;
\* the generic name also when the code does not parse
analyze_code_for_testing(code, content_type) ==
    IF ~code.parses
    THEN [class_name |-> GenericClassName(content_type), test_methods |-> <<>>]
    ELSE IF code.classes # <<>>
    THEN [class_name |-> code.classes[1].name,
          test_methods |-> PublicMethods(code.classes[1].methods)]
    ELSE IF code.mention # "none"
    THEN [class_name |-> code.mention, test_methods |-> <<>>]
    ELSE [class_name |-> GenericClassName(content_type), test_methods |-> <<>>]

\* the class named by the per-type fallback test text
FallbackTestClass(content_type) ==
    IF content_type = "test_starter" THEN "TestModule"
    ELSE IF content_type = "test_assignment_a" THEN "TestAssignment"
    ELSE "TestImplementation"

\* test_template.py.j2 rendered with the context: it names context.class_name
RenderTestTemplate(context) == context.class_name

\* the names that stand for no class of the code under test
GenericNames == {"StarterExample", "AssignmentA", "AssignmentB", "TestClass", "TestModule",
                 "TestAssignment", "TestImplementation", "TestExample"}

AnalyzeInputs ==
    [code : CodesToTest,
     content_type : {"test_starter", "test_assignment_a", "test_assignment_b"},
     template : {"exists", "missing", "render_error"}]

InitAnalyze ==
    /\ aIn \in AnalyzeInputs
    /\ apc = "input"
    /\ aOut = [class_name |-> "none", test_methods |-> <<>>, file_class |-> "none",
               source |-> "none"]
    /\ IdleCore
    /\ IdleWait /\ IdleLater

\* _create_template_context for a test content type with code_to_test given:
\* context.update(code_analysis)
CreateTemplateContext ==
    /\ apc = "input"
    /\ LET code_analysis == analyze_code_for_testing(aIn.code, aIn.content_type)
       IN aOut' = [aOut EXCEPT !.class_name = code_analysis.class_name,
                               !.test_methods = code_analysis.test_methods]
    /\ apc' = "context"
    /\ UNCHANGED <<aIn, coreVars, waitVars, laterVars>>

\* the source selection for a test file whose response came from the fallback
\* generator: the template if it exists, else the response content
SelectTestSource ==
    /\ apc = "context"
    /\ aOut' = IF aIn.template = "exists"
               THEN [aOut EXCEPT !.file_class = RenderTestTemplate(aOut), !.source = "template"]
               ELSE IF aIn.template = "render_error"
               THEN \* TemplateEngine._fallback_test
                    [aOut EXCEPT !.file_class = "TestExample", !.source = "render_fallback"]
               ELSE [aOut EXCEPT !.file_class = FallbackTestClass(aIn.content_type),
                                 !.source = "fallback"]
    /\ apc' = "written"
    /\ UNCHANGED <<aIn, coreVars, waitVars, laterVars>>

NextAnalyze == CreateTemplateContext \/ SelectTestSource

SpecAnalyze == InitAnalyze /\ [][NextAnalyze]_vars

\* --------------------------- specification: one provider call and its wait
\* GenerationConfig.request_timeout, in seconds
RequestTimeout == 30

\* the configuration of a generator that reaches the provider
WaitConfig == [use_ai |-> TRUE, enable_cache |-> TRUE, openai_model |-> "gpt-4",
               reference_lesson_dir |-> FALSE]

\* what the provider does with one call: it answers after `delay` seconds
\* with an outcome of ProviderOutcomes, or it never answers
WaitRequests ==
    [content_type : RequestTypes, delay : 0..MaxDelay, outcome : ProviderOutcomes \cup {"never"}]

WaitRequest == Request(wReq.content_type, MakeTopic(GoodFields, <<>>), Starter(<<"a">>), NoContext)

InitWait ==
    /\ wReq \in WaitRequests
    /\ wpc = "input"
    /\ clock = 0
    /\ wResult = NoResponse
    /\ IdleCore
    /\ IdleAnalyze /\ IdleLater

\* _generate_ai_content up to chat.completions.create(model, messages,
\* temperature, max_tokens): the call is made without a timeout argument
CallProvider ==
    /\ wpc = "input"
    /\ wpc' = "waiting"
    /\ UNCHANGED <<wReq, clock, wResult, coreVars, analyzeVars, laterVars>>

\* a second passes while create() blocks; nothing in the code ends the wait
WaitForProvider ==
    /\ wpc = "waiting"
    /\ wReq.outcome = "never" \/ clock < wReq.delay
    /\ clock < MaxDelay + 1
    /\ clock' = clock + 1
    /\ UNCHANGED <<wpc, wReq, wResult, coreVars, analyzeVars, laterVars>>

\* create() returns or raises and _generate_ai_content returns its response
ProviderAnswers ==
    /\ wpc = "waiting"
    /\ wReq.outcome # "never"
    /\ clock = wReq.delay
    /\ wResult' = generate_ai_content(WaitRequest, wReq.outcome, WaitConfig, 1)
    /\ wpc' = "returned"
    /\ UNCHANGED <<wReq, clock, coreVars, analyzeVars, laterVars>>

NextWait == CallProvider \/ WaitForProvider \/ ProviderAnswers

SpecWait == InitWait /\ [][NextWait]_vars

\* ------------------- specification: the background task of the web layer
\* a percentage as an exact fraction: the code computes with floats, whose
\* rounding is far below the gaps between the values compared here
Pct(n, d) == [num |-> n, den |-> d]
PctAdd(a, b) == Pct(a.num * b.den + b.num * a.den, a.den * b.den)
PctMul(a, b) == Pct(a.num * b.num, a.den * b.den)
PctLeq(a, b) == a.num * b.den <= b.num * a.den

\* base_progress and topic_progress_base = (i / total_topics) * 85
topic_progress_base(i, total_topics) == PctMul(Pct(i, total_topics), Pct(85, 1))
\* the four messages of `steps`
StepCount == 4
\* step_progress = topic_progress_base + (step_i / len(steps)) * topic_progress_share * 0.8,
\* with topic_progress_share = 85 / total_topics
step_progress(i, step_i, total_topics) ==
    PctAdd(topic_progress_base(i, total_topics),
           PctMul(PctMul(Pct(step_i, StepCount), Pct(85, total_topics)),
                  Pct(8, 10)))
\* topic_progress_base + topic_progress_share * 0.9
generation_progress(i, total_topics) ==
    PctAdd(topic_progress_base(i, total_topics),
           PctMul(Pct(85, total_topics), Pct(9, 10)))

\* what a call made between two updates does
CallOutcomes == {"ok", "raise"}
WebInputs == [topics : 0..MaxTopics, modules_count : {"none", "set"}]

InitWeb ==
    /\ uIn \in WebInputs
    /\ upc = "start"
    /\ uI = 0
    /\ uStep = 0
    /\ uStatus = "pending"
    /\ uLog = <<>>
    /\ uResults = <<>>
    /\ IdleCore
    /\ IdleWait /\ IdleAnalyze /\ IdleAsync /\ IdleCli /\ IdleMore

\* update_task_status(lesson_id, PROCESSING, progress = p), then `next`
Report(p, next) ==
    /\ uStatus' = "processing"
    /\ uLog' = Append(uLog, p)
    /\ upc' = next

\* the except branch: update_task_status(lesson_id, FAILED) without progress
Fail ==
    /\ uStatus' = "failed"
    /\ upc' = "done"

\* the modules_count check and "Initializing lesson generation..."
InitializeTask ==
    /\ upc = "start"
    /\ IF uIn.modules_count = "none"
       THEN Fail /\ UNCHANGED uLog
       ELSE Report(Pct(2, 1), "setup")
    /\ UNCHANGED <<uIn, uResults, uI, uStep, coreVars, waitVars, analyzeVars, asyncVars, cliVars, moreVars>>

\* "Setting up lesson generator..."
SetUpGenerator ==
    /\ upc = "setup"
    /\ Report(Pct(5, 1), "plan")
    /\ UNCHANGED <<uIn, uResults, uI, uStep, coreVars, waitVars, analyzeVars, asyncVars, cliVars, moreVars>>

\* "Planning lesson structure ...", then the loop over the topics begins
PlanStructure ==
    /\ upc = "plan"
    /\ Report(Pct(8, 1), IF uIn.topics = 0 THEN "store" ELSE "topic_start")
    /\ UNCHANGED <<uIn, uResults, uI, uStep, coreVars, waitVars, analyzeVars, asyncVars, cliVars, moreVars>>

\* "Starting lesson generation for ...", then create_topic_from_name,
\* which raises ValueError on a name it rejects
StartTopic ==
    /\ upc = "topic_start"
    /\ \E outcome \in CallOutcomes :
        IF outcome = "raise"
        THEN /\ uLog' = Append(uLog, topic_progress_base(uI, uIn.topics))
             /\ Fail
        ELSE Report(topic_progress_base(uI, uIn.topics), "topic_prepare")
    /\ UNCHANGED <<uIn, uResults, uI, uStep, coreVars, waitVars, analyzeVars, asyncVars, cliVars, moreVars>>

\* "Starting lesson ... with n modules..."
PrepareTopic ==
    /\ upc = "topic_prepare"
    /\ Report(topic_progress_base(uI, uIn.topics), "steps")
    /\ uStep' = 0
    /\ UNCHANGED <<uIn, uResults, uI, coreVars, waitVars, analyzeVars, asyncVars, cliVars, moreVars>>

\* one round of the loop over `steps`
ShowStep ==
    /\ upc = "steps"
    /\ Report(step_progress(uI, uStep, uIn.topics),
              IF uStep + 1 < StepCount THEN "steps" ELSE "generate")
    /\ uStep' = uStep + 1
    /\ UNCHANGED <<uIn, uResults, uI, coreVars, waitVars, analyzeVars, asyncVars, cliVars, moreVars>>

\* "Generating lesson files ...", then generate_lesson_async, which returns a
\* result with success true or false, or raises; all_results.append(result)
GenerateTopic ==
    /\ upc = "generate"
    /\ \E outcome \in CallOutcomes \cup {"failed"} :
        IF outcome = "raise"
        THEN /\ uLog' = Append(uLog, generation_progress(uI, uIn.topics))
             /\ Fail
             /\ UNCHANGED uResults
        ELSE /\ Report(generation_progress(uI, uIn.topics), "topic_completed")
             /\ uResults' = Append(uResults, [success |-> outcome = "ok"])
    /\ UNCHANGED <<uIn, uI, uStep, coreVars, waitVars, analyzeVars, asyncVars, cliVars, moreVars>>

\* "Completed lesson ...", progress ((i + 1) / total_topics) * 85
CompleteTopic ==
    /\ upc = "topic_completed"
    /\ Report(topic_progress_base(uI + 1, uIn.topics), "topic_after")
    /\ UNCHANGED <<uIn, uResults, uI, uStep, coreVars, waitVars, analyzeVars, asyncVars, cliVars, moreVars>>

\* the second update with the same value, then the next topic
AfterTopic ==
    /\ upc = "topic_after"
    /\ Report(topic_progress_base(uI + 1, uIn.topics),
              IF uI + 1 < uIn.topics THEN "topic_start" ELSE "store")
    /\ uI' = uI + 1
    /\ UNCHANGED <<uIn, uResults, uStep, coreVars, waitVars, analyzeVars, asyncVars, cliVars, moreVars>>

\* "Processing and storing generated files...", then store_lesson_files
StoreFiles ==
    /\ upc = "store"
    /\ \E outcome \in CallOutcomes :
        IF outcome = "raise"
        THEN /\ uLog' = Append(uLog, Pct(87, 1))
             /\ Fail
        ELSE Report(Pct(87, 1), "collect")
    /\ UNCHANGED <<uIn, uResults, uI, uStep, coreVars, waitVars, analyzeVars, asyncVars, cliVars, moreVars>>

\* "Collecting generated lesson files..."
CollectFiles ==
    /\ upc = "collect"
    /\ Report(Pct(93, 1), "finalize")
    /\ UNCHANGED <<uIn, uResults, uI, uStep, coreVars, waitVars, analyzeVars, asyncVars, cliVars, moreVars>>

\* "Finalizing lesson generation..."
FinalizeTask ==
    /\ upc = "finalize"
    /\ Report(Pct(98, 1), "complete")
    /\ UNCHANGED <<uIn, uResults, uI, uStep, coreVars, waitVars, analyzeVars, asyncVars, cliVars, moreVars>>

\* update_task_status(lesson_id, COMPLETED, progress = 100.0)
CompleteTask ==
    /\ upc = "complete"
    /\ uStatus' = "completed"
    /\ uLog' = Append(uLog, Pct(100, 1))
    /\ upc' = "done"
    /\ UNCHANGED <<uIn, uResults, uI, uStep, coreVars, waitVars, analyzeVars, asyncVars, cliVars, moreVars>>

NextWeb ==
    \/ InitializeTask \/ SetUpGenerator \/ PlanStructure
    \/ StartTopic \/ PrepareTopic \/ ShowStep \/ GenerateTopic
    \/ CompleteTopic \/ AfterTopic
    \/ StoreFiles \/ CollectFiles \/ FinalizeTask \/ CompleteTask

SpecWeb == InitWeb /\ [][NextWeb]_vars

\* ------------- specification: two generations sharing one ContentGenerator
\* generate_lesson_async hands generate_lesson to the default thread pool, so
\* two generations started on one LessonGenerator run in two threads
Threads == {1, 2}

\* _get_optimal_max_tokens
get_optimal_max_tokens(content_type) ==
    CASE content_type \in {"starter_example", "extra_exercises"} -> 800
      [] content_type \in {"assignment_a", "assignment_b"} -> 600
      [] content_type \in {"test_starter", "test_assignment_a", "test_assignment_b"} -> 400
      [] content_type = "learning_path" -> 1200
      [] OTHER -> 600

\* the content types the two runs ask the provider for
AsyncRuns == SeqsOf({"learning_path", "starter_example"}, 1, MaxRunCalls)

InitAsync ==
    /\ tRuns \in [Threads -> AsyncRuns]
    /\ tPos = [t \in Threads |-> "optimize"]
    /\ tIdx = [t \in Threads |-> 1]
    /\ tSeen = [t \in Threads |-> <<>>]
    /\ tLoad = [t \in Threads |-> 0]
    /\ \E m \in {"gpt-4", "gpt-3.5-turbo"} :
        shared = [openai_model |-> m, current_content_type |-> "unset", ai_calls |-> 0]
    /\ IdleCore
    /\ IdleWait /\ IdleAnalyze /\ IdleWeb /\ IdleCli /\ IdleMore

\* _optimize_prompt_for_cost, called while the messages are built:
\* self._current_content_type = content_type
OptimizePrompt(t) ==
    /\ tPos[t] = "optimize"
    /\ shared' = [shared EXCEPT !.current_content_type = tRuns[t][tIdx[t]]]
    /\ tPos' = [tPos EXCEPT ![t] = "create"]
    /\ UNCHANGED <<tRuns, tIdx, tSeen, tLoad, coreVars, waitVars, analyzeVars, webVars, cliVars, moreVars>>

\* chat.completions.create(model = self._get_cost_optimal_model(), ...,
\* max_tokens = self._get_optimal_max_tokens(request.content_type))
CreateCompletion(t) ==
    /\ tPos[t] = "create"
    /\ tSeen' = [tSeen EXCEPT ![t] = Append(@,
            [content_type |-> tRuns[t][tIdx[t]],
             model |-> get_cost_optimal_model(shared.openai_model,
                                              shared.current_content_type),
             max_tokens |-> get_optimal_max_tokens(tRuns[t][tIdx[t]])])]
    /\ tPos' = [tPos EXCEPT ![t] = "count"]
    /\ UNCHANGED <<tRuns, tIdx, tLoad, shared, coreVars, waitVars, analyzeVars, webVars, cliVars, moreVars>>

\* self._generation_stats["ai_calls"] += 1, first half: the value is read
LoadCounter(t) ==
    /\ tPos[t] = "count"
    /\ tLoad' = [tLoad EXCEPT ![t] = shared.ai_calls]
    /\ tPos' = [tPos EXCEPT ![t] = "store"]
    /\ UNCHANGED <<tRuns, tIdx, tSeen, shared, coreVars, waitVars, analyzeVars, webVars, cliVars, moreVars>>

\* second half: the value read, plus one, is stored; then the next call
StoreCounter(t) ==
    /\ tPos[t] = "store"
    /\ shared' = [shared EXCEPT !.ai_calls = tLoad[t] + 1]
    /\ IF tIdx[t] < Len(tRuns[t])
       THEN /\ tIdx' = [tIdx EXCEPT ![t] = @ + 1]
            /\ tPos' = [tPos EXCEPT ![t] = "optimize"]
       ELSE /\ tPos' = [tPos EXCEPT ![t] = "done"]
            /\ UNCHANGED tIdx
    /\ UNCHANGED <<tRuns, tSeen, tLoad, coreVars, waitVars, analyzeVars, webVars, cliVars, moreVars>>

NextAsync ==
    \E t \in Threads :
        OptimizePrompt(t) \/ CreateCompletion(t) \/ LoadCounter(t) \/ StoreCounter(t)

SpecAsync == InitAsync /\ [][NextAsync]_vars

\* ----------------------------- utils/validation.py, cli.py: topic creation
Raised == [raised |-> TRUE, value |-> <<>>]
Returned(v) == [raised |-> FALSE, value |-> v]

\* the characters of s from the first one outside `set` on
DropLeading(s, set) ==
    LET first == CHOOSE i \in 1..(Len(s) + 1) :
                    /\ i = Len(s) + 1 \/ s[i] \notin set
                    /\ \A j \in 1..(i - 1) : s[j] \in set
    IN SubSeq(s, first, Len(s))

\* the characters of s up to the last one outside `set`
DropTrailing(s, set) ==
    LET last == CHOOSE i \in 0..Len(s) :
                    /\ i = 0 \/ s[i] \notin set
                    /\ \A j \in (i + 1)..Len(s) : s[j] \in set
    IN SubSeq(s, 1, last)

\* re.sub(r'[set]+', '_', s): every maximal run of characters of `set`
\* becomes one underscore
SubRuns(s, set) ==
    LET marked == [i \in DOMAIN s |->
                      IF s[i] \notin set THEN s[i]
                      ELSE IF i > 1 /\ s[i - 1] \in set THEN "" ELSE "_"]
    IN SelectSeq(marked, LAMBDA c : c # "")

\* validate_topic_name; "?" stands for the characters of [<>:"/\\|?*]
validate_topic_name(name) ==
    IF name = <<>> \/ Strip(name) = <<>> THEN Raised
    ELSE LET normalized == Strip(name)
         IN IF Len(normalized) > MaxNameLength THEN Raised
            ELSE IF \E i \in DOMAIN normalized : normalized[i] \in {"?"}
                 THEN Raised
                 ELSE Returned(normalized)

\* the same without the last step, slug.strip('_')
create_slug_from_name_nostrip(name) ==
    LET lowered == Strip(Lower(name))
        separated == SubRuns(lowered, {" ", "-", "."})
        kept == SelectSeq(separated, LAMBDA c : c \in SlugChars)
        slug == SubRuns(kept, {"_"})
    IN IF slug = <<>> THEN Raised ELSE Returned(slug)

\* create_slug_from_name: lower().strip(), [\s\-\.]+ to '_', [^a-z0-9_]
\* dropped, _+ to '_', strip('_')
create_slug_from_name(name) ==
    LET lowered == Strip(Lower(name))
        separated == SubRuns(lowered, {" ", "-", "."})
        kept == SelectSeq(separated, LAMBDA c : c \in SlugChars)
        collapsed == SubRuns(kept, {"_"})
        slug == DropTrailing(DropLeading(collapsed, {"_"}), {"_"})
    IN IF slug = <<>> THEN Raised ELSE Returned(slug)

\* str(i) for i >= 1
RECURSIVE DecimalOf(_)
DecimalOf(i) ==
    LET digits == <<"1", "2", "3", "4", "5", "6", "7", "8", "9">>
    IN IF i < 10 THEN <<digits[i]>>
       ELSE DecimalOf(i \div 10) \o <<IF i % 10 = 0 THEN "0" ELSE digits[i % 10]>>

\* ModuleConfig(name, type, ...): name has min_length=1, max_length=100 and
\* validate_name rejects a blank name and strips
ModuleConfig(name, type) ==
    IF Len(name) < 1 \/ Len(name) > 100 \/ Strip(name) = <<>>
    THEN Raised
    ELSE Returned([name |-> Strip(name), type |-> type])

\* the modules create_topic_from_name builds for modules_count >= 1
TopicModules(normalized_name, modules_count) ==
    IF modules_count = 1
    THEN <<ModuleConfig(normalized_name \o <<" ", "O", "v", "e", "r", "v", "i", "e", "w">>, "starter")>>
    ELSE LET assignment_count ==
                 IF modules_count >= 4 THEN modules_count - 2 ELSE modules_count - 1
         IN <<ModuleConfig(normalized_name \o <<" ", "F", "u", "n", "d", "a", "m", "e", "n", "t", "a", "l", "s">>, "starter")>>
            \o [i \in 1..assignment_count |->
                   ModuleConfig(normalized_name
                                \o <<" ", "I", "m", "p", "l", "e", "m", "e", "n", "t", "a", "t", "i", "o", "n", " ">>
                                \o DecimalOf(i),
                                "assignment")]
            \o (IF modules_count >= 4
                THEN <<ModuleConfig(normalized_name \o <<" ", "P", "r", "o", "j", "e", "c", "t">>, "project")>>
                ELSE <<>>)

\* TopicConfig(...): the field constraints and validators that can fail
\* for what create_topic_from_name passes
TopicConfig(fields, modules) ==
    IF \/ Len(fields.name) < 1 \/ Len(fields.name) > MaxNameLength
       \/ ~SlugMatches(fields.slug)
       \/ fields.description_len < MinDescriptionLength
       \/ fields.description_len > MaxDescriptionLength
       \/ Len(modules) < 1 \/ Len(modules) > MaxModuleCount
       \/ CountType(modules, "starter") = 0
       \/ (Len(modules) > 1 /\ CountType(modules, "assignment") = 0)
    THEN Raised
    ELSE Returned(MakeTopic(fields, modules))

\* create_topic_from_name; the description and the learning objectives are
\* kept as lengths: the length of the name plus that of the text around it
create_topic_from_name(topic_name, difficulty, modules_count) ==
    LET normalized_name == validate_topic_name(topic_name)
    IN IF normalized_name.raised THEN Raised
       ELSE LET slug == create_slug_from_name(normalized_name.value)
                name == normalized_name.value
                count == IF modules_count < 1 THEN 1 ELSE modules_count
                built == TopicModules(name, count)
                objective_texts == <<28, 29, 37, 25>>
                hours_x10 == CASE difficulty = "beginner" -> 40
                               [] difficulty = "intermediate" -> 60
                               [] difficulty = "advanced" -> 80
                               [] OTHER -> 60
            IN IF slug.raised THEN Raised
               ELSE IF \E i \in DOMAIN built : built[i].raised THEN Raised
               ELSE TopicConfig(
                        [name |-> name, slug |-> slug.value,
                         description_len |-> Len(name) + 63,
                         difficulty |-> difficulty,
                         estimated_hours_x10 |-> hours_x10,
                         concepts |->
                            <<Lower(name) \o <<" ", "f", "u", "n", "d", "a", "m", "e", "n", "t", "a", "l", "s">>,
                              <<"p", "r", "a", "c", "t", "i", "c", "a", "l", " ", "a", "p", "p", "l", "i", "c", "a", "t", "i", "o", "n", "s">>,
                              <<"b", "e", "s", "t", " ", "p", "r", "a", "c", "t", "i", "c", "e", "s">>,
                              <<"r", "e", "a", "l", "-", "w", "o", "r", "l", "d", " ", "e", "x", "a", "m", "p", "l", "e", "s">>>>,
                         learning_objectives |->
                             [i \in DOMAIN objective_texts |-> Len(name) + objective_texts[i]],
                         prerequisites |-> 0],
                        [i \in DOMAIN built |-> built[i].value])

\* ------------------------------ specification: a slug and a topic from a name
\* a name: some free characters, then `fill` letters, then `pad` blanks
NameOf(in) ==
    in.body \o [i \in 1..in.fill |-> "a"] \o [i \in 1..in.pad |-> " "]

\* "Data-Science & ML" of test_topic_slug_generation, B for a capital and a
\* for a small letter, and the slug expected for it
ExampleName == <<"B", "a", "-", "B", "a", " ", "&", " ", "B", "B">>
ExampleSlug == <<"b", "a", "_", "b", "a", "_", "b", "b">>

\* the free characters are up to MaxNameChars of: a small and a capital
\* letter, the separators, the underscore, a character the slug drops and a
\* character validate_topic_name rejects; filled and padded to around 100
SlugInputs ==
    [body : SeqsOf({"a", "B", " ", "-", ".", "_", "&", "?"}, 0, MaxNameChars)
            \cup {ExampleName},
     fill : {0, 98, 101}, pad : {0, 101},
     difficulty : {"intermediate"}, modules_count : {4}]

InitSlug ==
    /\ cIn \in SlugInputs
    /\ cpc = "slug"
    /\ cOut = [slug |-> NoOutcome, again |-> NoOutcome, topic |-> NoOutcome,
               validation |-> NoValidation]
    /\ IdleCore
    /\ IdleWait /\ IdleAnalyze /\ IdleWeb /\ IdleAsync /\ IdleMore

\* create_slug_from_name(name)
CreateSlug ==
    /\ cpc = "slug"
    /\ cOut' = [cOut EXCEPT !.slug = create_slug_from_name(NameOf(cIn))]
    /\ cpc' = "again"
    /\ UNCHANGED <<cIn, coreVars, waitVars, analyzeVars, webVars, asyncVars, moreVars>>

\* create_slug_from_name applied to the slug it returned
SlugAgain ==
    /\ cpc = "again"
    /\ cOut' = [cOut EXCEPT !.again =
                    IF cOut.slug.raised THEN Raised
                    ELSE create_slug_from_name(cOut.slug.value)]
    /\ cpc' = "topic"
    /\ UNCHANGED <<cIn, coreVars, waitVars, analyzeVars, webVars, asyncVars, moreVars>>

\* create_topic_from_name(name, difficulty, modules_count)
CreateTopic ==
    /\ cpc = "topic"
    /\ cOut' = [cOut EXCEPT !.topic =
                    create_topic_from_name(NameOf(cIn), cIn.difficulty, cIn.modules_count)]
    /\ cpc' = "validate"
    /\ UNCHANGED <<cIn, coreVars, waitVars, analyzeVars, webVars, asyncVars, moreVars>>

NextSlug == CreateSlug \/ SlugAgain \/ CreateTopic

SpecSlug == InitSlug /\ [][NextSlug]_vars

\* ---------------------------- specification: a topic for n modules, validated
\* names of 1, 3, 83, 85, 91 and 93 characters, every difficulty, and the
\* module counts around the range 1..10
TopicInputs ==
    [body : {<<"a">>, <<"a", " ", "B">>}, fill : {0, 82, 90}, pad : {0},
     difficulty : {"beginner", "intermediate", "advanced"},
     modules_count : 0..(MaxModuleCount + 1)]

InitTopic ==
    /\ cIn \in TopicInputs
    /\ cpc = "topic"
    /\ cOut = [slug |-> NoOutcome, again |-> NoOutcome, topic |-> NoOutcome,
               validation |-> NoValidation]
    /\ IdleCore
    /\ IdleWait /\ IdleAnalyze /\ IdleWeb /\ IdleAsync /\ IdleMore

\* validate_topic(topic), as generate_lesson calls it first
ValidateCreated ==
    /\ cpc = "validate"
    /\ cOut' = [cOut EXCEPT !.validation =
                    IF cOut.topic.raised THEN NoValidation
                    ELSE validate_topic(cOut.topic.value)]
    /\ cpc' = "done"
    /\ UNCHANGED <<cIn, coreVars, waitVars, analyzeVars, webVars, asyncVars, moreVars>>

NextTopic == CreateTopic \/ ValidateCreated

SpecTopic == InitTopic /\ [][NextTopic]_vars

\* ---------------------------------------- specification: the create command
\* cli.py create: the options as click hands them over.  modules = 0 stands
\* for an absent --modules (None; click admits 1..10 only), config for a given
\* --config file, output for what validate_output_path finds, generator for
\* what LessonGenerator(generation_config) does.
CreateInputs ==
    [no_ai : BOOLEAN, strict_ai : BOOLEAN, openai_api_key : BOOLEAN,
     output : {"ok", "bad"}, modules : {0, 1, MaxModuleCount}, config : BOOLEAN,
     topics : SeqsOf({<<"a">>, <<"a", "?">>}, 1, MaxCliTopics),
     generator : {"ok", "raise"}]

InitCreate ==
    /\ kArgs \in CreateInputs
    /\ kpc = "options" /\ kExit = -1 /\ kCalls = 0
    /\ IdleSock
    /\ IdleCore
    /\ IdleWait /\ IdleAnalyze /\ IdleWeb /\ IdleAsync /\ IdleCli

\* load_topics_from_config(config_path): not implemented, it raises
load_topics_from_config == Raised

\* sys.exit(1)
Exit1 ==
    /\ kExit' = 1 /\ kpc' = "done"
    /\ UNCHANGED <<kArgs, kCalls, sockVars, coreVars, waitVars, analyzeVars,
                   webVars, asyncVars, cliVars>>

CreateStep(next) ==
    /\ kpc' = next
    /\ UNCHANGED <<kArgs, kExit, kCalls, sockVars, coreVars, waitVars, analyzeVars,
                   webVars, asyncVars, cliVars>>

\* the credential check and validate_output_path(output)
ValidateOptions ==
    /\ kpc = "options"
    /\ IF ~kArgs.no_ai /\ kArgs.strict_ai /\ ~kArgs.openai_api_key THEN Exit1
       ELSE IF kArgs.output = "bad" THEN Exit1
       ELSE CreateStep("topics")

\* the topics to process: from the config file, or one per name given
DetermineTopics ==
    /\ kpc = "topics"
    /\ IF kArgs.config
       THEN IF load_topics_from_config.raised THEN Exit1 ELSE CreateStep("generator")
       ELSE IF kArgs.modules = 0 THEN Exit1
       ELSE IF \E i \in DOMAIN kArgs.topics :
                   create_topic_from_name(kArgs.topics[i], "beginner", kArgs.modules).raised
            THEN Exit1
       ELSE IF kArgs.topics = <<>> THEN Exit1
       ELSE CreateStep("generator")

\* generator = LessonGenerator(generation_config)
InitializeGenerator ==
    /\ kpc = "generator"
    /\ IF kArgs.generator = "raise" THEN Exit1 ELSE CreateStep("lessons")

\* one turn of the loop: generator.generate_lesson(topic); what it returns or
\* raises is counted and reported, the loop goes on
GenerateOneLesson ==
    /\ kpc = "lessons"
    /\ kCalls < Len(kArgs.topics)
    /\ kCalls' = kCalls + 1
    /\ UNCHANGED <<kpc, kArgs, kExit, sockVars, coreVars, waitVars, analyzeVars,
                   webVars, asyncVars, cliVars>>

\* the final summary; the command returns, the exit status is 0
Summarize ==
    /\ kpc = "lessons"
    /\ kCalls = Len(kArgs.topics)
    /\ kExit' = 0 /\ kpc' = "done"
    /\ UNCHANGED <<kArgs, kCalls, sockVars, coreVars, waitVars, analyzeVars,
                   webVars, asyncVars, cliVars>>

NextCreate ==
    ValidateOptions \/ DetermineTopics \/ InitializeGenerator \/ GenerateOneLesson \/ Summarize

SpecCreate == InitCreate /\ [][NextCreate]_vars

\* ------------------------------------------ specification: WebSocketManager
\* web/services/websocket.py.  The manager runs on one event loop: a coroutine
\* runs alone until it awaits.  connect awaits websocket.accept() and registers
\* afterwards; broadcast_to_lesson copies the lesson's set and awaits one
\* send_text per connection; disconnect does not await.  sTasks holds the
\* suspended coroutines: a connect waiting for accept, or a broadcast with the
\* connections of its copy still to be served.
Sockets == {"s1", "s2"}
Lessons == {"x", "y"}

InitSock ==
    /\ active_connections = <<>>
    /\ sTasks = {}
    /\ sLast = NoStep
    /\ sFailed = {}
    /\ IdleCreate
    /\ IdleCore
    /\ IdleWait /\ IdleAnalyze /\ IdleWeb /\ IdleAsync /\ IdleCli

Step(op, websocket, lesson_id, outcome) ==
    [op |-> op, websocket |-> websocket, lesson_id |-> lesson_id, outcome |-> outcome]

\* disconnect without the clean-up of empty sets
disconnect_keep(connections, websocket, lesson_id) ==
    IF lesson_id \in DOMAIN connections
    THEN [connections EXCEPT ![lesson_id] = @ \ {websocket}]
    ELSE connections

\* disconnect(websocket, lesson_id): discard, then delete the set if empty
disconnect(connections, websocket, lesson_id) ==
    IF lesson_id \in DOMAIN connections
    THEN IF connections[lesson_id] \ {websocket} = {}
         THEN [l \in DOMAIN connections \ {lesson_id} |-> connections[l]]
         ELSE [connections EXCEPT ![lesson_id] = @ \ {websocket}]
    ELSE connections

\* connect(websocket, lesson_id) up to `await websocket.accept()`
BeginConnect(websocket, lesson_id) ==
    /\ Cardinality(sTasks) < MaxTasks
    /\ sTasks' = sTasks \cup {[op |-> "connect", websocket |-> websocket,
                               lesson_id |-> lesson_id, pending |-> {}]}
    /\ sLast' = Step("accept", websocket, lesson_id, "awaited")
    /\ UNCHANGED <<active_connections, sFailed, createVars, coreVars, waitVars, analyzeVars,
                   webVars, asyncVars, cliVars>>

\* accept returns and connect registers the socket, or accept raises and
\* connect is left by the exception
FinishConnect ==
    \E task \in sTasks :
        /\ task.op = "connect"
        /\ sTasks' = sTasks \ {task}
        /\ \E outcome \in {"ok", "raise"} :
            /\ sLast' = Step("connect", task.websocket, task.lesson_id, outcome)
            /\ IF outcome = "ok"
               THEN /\ active_connections' =
                           [l \in DOMAIN active_connections \cup {task.lesson_id} |->
                               IF l = task.lesson_id
                               THEN (IF l \in DOMAIN active_connections
                                     THEN active_connections[l] ELSE {}) \cup {task.websocket}
                               ELSE active_connections[l]]
                    /\ sFailed' = sFailed \ {<<task.websocket, task.lesson_id>>}
               ELSE UNCHANGED <<active_connections, sFailed>>
        /\ UNCHANGED <<createVars, coreVars, waitVars, analyzeVars, webVars, asyncVars, cliVars>>

\* disconnect(websocket, lesson_id), called from outside
Disconnect(websocket, lesson_id) ==
    /\ active_connections' = disconnect(active_connections, websocket, lesson_id)
    /\ sLast' = Step("disconnect", websocket, lesson_id, "returned")
    /\ UNCHANGED <<sTasks, sFailed, createVars, coreVars, waitVars, analyzeVars,
                   webVars, asyncVars, cliVars>>

\* broadcast_to_lesson(lesson_id, message) up to its first send_text
BeginBroadcast(lesson_id) ==
    /\ Cardinality(sTasks) < MaxTasks
    /\ IF lesson_id \notin DOMAIN active_connections
       THEN /\ sLast' = Step("broadcast", "none", lesson_id, "returned")
            /\ UNCHANGED sTasks
       ELSE /\ sLast' = Step("broadcast", "none", lesson_id, "awaited")
            /\ sTasks' = sTasks \cup {[op |-> "broadcast", websocket |-> "none",
                                       lesson_id |-> lesson_id,
                                       pending |-> active_connections[lesson_id]]}
    /\ UNCHANGED <<active_connections, sFailed, createVars, coreVars, waitVars, analyzeVars,
                   webVars, asyncVars, cliVars>>

\* one send_text of a broadcast comes back: it returned, or it raised and the
\* except branch calls self.disconnect(connection, lesson_id)
FinishSend ==
    \E task \in sTasks :
        /\ task.op = "broadcast"
        /\ \E connection \in task.pending, outcome \in {"ok", "raise"} :
            /\ sTasks' = (sTasks \ {task}) \cup
                            (IF task.pending = {connection} THEN {}
                             ELSE {[task EXCEPT !.pending = @ \ {connection}]})
            /\ sLast' = Step("send", connection, task.lesson_id, outcome)
            /\ IF outcome = "raise"
               THEN /\ active_connections' =
                           disconnect(active_connections, connection, task.lesson_id)
                    /\ sFailed' = sFailed \cup {<<connection, task.lesson_id>>}
               ELSE UNCHANGED <<active_connections, sFailed>>
        /\ UNCHANGED <<createVars, coreVars, waitVars, analyzeVars, webVars, asyncVars, cliVars>>

NextSock ==
    \/ \E websocket \in Sockets, lesson_id \in Lessons :
          BeginConnect(websocket, lesson_id) \/ Disconnect(websocket, lesson_id)
    \/ \E lesson_id \in Lessons : BeginBroadcast(lesson_id)
    \/ FinishConnect
    \/ FinishSend

SpecSock == InitSock /\ [][NextSock]_vars

\* ------------------------------------------------------------------ claims

\* the identity of a request: content type, topic name and difficulty, module
\* name and type, the names compared in lower case with blanks as underscores
SameIdentity(c, d) ==
    /\ c.content_type = d.content_type
    /\ ReplaceSpaces(Lower(c.topic_name)) = ReplaceSpaces(Lower(d.topic_name))
    /\ c.difficulty = d.difficulty
    /\ ReplaceSpaces(Lower(c.module.name)) = ReplaceSpaces(Lower(d.module.name))
    /\ c.module.type = d.module.type

StatsBefore(i) == IF i = 1 THEN NewGenerator(FALSE).stats ELSE calls[i - 1].stats

\* C2: a generate_content call whose provider call fails still returns a
\* successful result with model_used = "fallback" and the fallback content of
\* the request.
C2_ProviderFailureFallsBack ==
    \A i \in DOMAIN calls :
        calls[i].outcome = "error" =>
            /\ calls[i].response.success
            /\ calls[i].response.model_used = "fallback"
            /\ calls[i].response.content =
                   Text("fallback", calls[i].content_type, calls[i].module.name, "ok", 0)

\* a call that reached the provider, which failed
C2_Witness_ProviderFailed ==
    \E i \in DOMAIN calls : calls[i].outcome = "error" /\ calls[i].source = "provider"

\* C3: with the cache enabled, a request with the identity of an earlier one
\* is served from the cache with the result stored by the first one; it adds
\* one to cache_hits, leaves ai_calls and fallback_calls alone and makes no
\* provider call or fallback generation.
C3_CacheServesRepeat ==
    config.enable_cache =>
        \A i, j \in DOMAIN calls :
            (i < j /\ SameIdentity(calls[i], calls[j])) =>
                /\ calls[j].source = "cache"
                /\ calls[j].outcome = "none"
                /\ calls[j].response = calls[i].response
                /\ calls[j].stats = Bump(StatsBefore(j), "cache_hits")

\* a repeated request after a first one that went to the provider
C3_Witness_Repeat ==
    /\ config.enable_cache
    /\ \E i, j \in DOMAIN calls :
          /\ i < j /\ SameIdentity(calls[i], calls[j])
          /\ calls[i].source = "provider" /\ calls[i].outcome = "ok"
          /\ calls[i].module.name # calls[j].module.name

\* C9: validate_topic rejects every topic without a starter module (with the
\* error "At least one starter module is required", which mentions "starter
\* module"), every topic of more than one module without an assignment module
\* and every topic with two modules of the same lower-cased, trimmed name;
\* is_valid is true exactly when the error list is empty, whatever the
\* warnings and suggestions.
C9_ValidateTopicRejects ==
    vpc = "validated" =>
        /\ (CountType(vTopic.modules, "starter") = 0 =>
                /\ ~vResult.is_valid
                /\ Contains(vResult.errors, "At least one starter module is required"))
        /\ (Len(vTopic.modules) > 1 /\ CountType(vTopic.modules, "assignment") = 0 =>
                ~vResult.is_valid)
        /\ ((\E i, j \in DOMAIN vTopic.modules :
                i # j /\ Strip(Lower(vTopic.modules[i].name)) = Strip(Lower(vTopic.modules[j].name)))
                => ~vResult.is_valid)
        /\ (vResult.is_valid <=> vResult.errors = <<>>)

\* a topic rejected only for its duplicate module names
C9_Witness_Duplicate ==
    /\ vpc = "validated"
    /\ vResult.errors = <<"Duplicate module names found">>
    /\ ~vResult.is_valid

\* C10: repair(repair(x)) = repair(x) for every input text x.
C10_RepairIdempotent == rpc = "twice" => rTwice = rOnce

\* the file names of a module result, in the order they were recorded
NamesOf(module_result) ==
    [k \in DOMAIN module_result.files |-> module_result.files[k].path[2]]

\* the file names a module of this type is to have
ExpectedNames(module_config) ==
    IF module_config.type \in StandardTypes
    THEN [k \in DOMAIN FilesToGenerate |-> FilesToGenerate[k].filename]
    ELSE <<"extra_exercises.md">>

AllModulesSucceeded ==
    /\ Len(result.modules) = Len(topic.modules)
    /\ \A i \in DOMAIN result.modules : result.modules[i].success

LogDir == ModuleDir([name |-> modResult.module_name])

\* C4: in a standard module each test file is requested after its code file
\* was processed, and when the code file was produced without an exception the
\* request's code_to_test is the text on the storage for that code file.
C4_TestAfterCode ==
    \A i \in DOMAIN fileLog :
        fileLog[i].filename \in TestFiles =>
            \E j \in 1..(i - 1) :
                /\ fileLog[j].filename = CodeFileOf(fileLog[i].filename)
                /\ fileLog[j].raised = "none" =>
                      /\ <<LogDir, fileLog[j].filename>> \in DOMAIN disk.files
                      /\ fileLog[i].extra_context =
                             CodeContext(disk.files[<<LogDir, fileLog[j].filename>>])

\* C4 witness: a test file was requested with the text of a code file that
\* went through the syntax repair before it was written.
C4_Witness_RepairedCodePassed ==
    \E i \in DOMAIN fileLog :
        /\ fileLog[i].filename = "test_assignment_a.py"
        /\ fileLog[i].extra_context.has_code
        /\ fileLog[i].extra_context.code_to_test.repaired
        /\ \E j \in 1..(i - 1) :
              fileLog[j].filename = "assignment_a.py" /\ fileLog[j].raised = "none"

\* C5: a standard module whose directory was created reports success and
\* keeps its files, whatever happened while its files were written.
C5_FileErrorsNeverFailModule ==
    \A i \in DOMAIN result.modules :
        (/\ topic.modules[i].type \in StandardTypes
         /\ ModuleDir(topic.modules[i]) \in disk.dirs) =>
            /\ result.modules[i].success
            /\ NamesOf(result.modules[i]) = ExpectedNames(topic.modules[i])

\* C6: whenever producing a file of a standard module raised, a placeholder
\* of the same file name is on the storage and is the one file recorded for
\* that name, at the file's position in the module result.
C6_PlaceholderOnFailure ==
    \A i \in DOMAIN fileLog :
        fileLog[i].raised # "none" =>
            LET path == <<LogDir, fileLog[i].filename>>
            IN /\ i \in DOMAIN modResult.files
               /\ modResult.files[i].path = path
               /\ modResult.files[i].content.kind = "placeholder"
               /\ Cardinality({k \in DOMAIN modResult.files : modResult.files[k].path = path}) = 1
               /\ path \in DOMAIN disk.files
               /\ disk.files[path] = modResult.files[i].content

\* C7: once generate_lesson returned with every module successful, quality
\* assurance has run; a score below 0.5 gives success = false with the error
\* naming the score, a score of 0.5 or more gives success = true.
C7_QualityGate ==
    (pc = "done" /\ AllModulesSucceeded) =>
        /\ result.quality_report # NoReport
        /\ IF result.quality_report.quality_score_x10 < QualityThreshold
           THEN /\ ~result.success
                /\ result.error.msg = "Quality score too low"
                /\ result.error.score_x10 = result.quality_report.quality_score_x10
           ELSE result.success /\ result.error = NoError

\* C7 witness: every module succeeded, the score is 0.4 and the lesson is
\* reported as failed.
C7_Witness_Score04 ==
    /\ pc = "done"
    /\ AllModulesSucceeded
    /\ result.quality_report.quality_score_x10 = 4
    /\ ~result.success

\* C8: for a topic that validate_topic reports invalid, no directory is made,
\* no file written, no template extraction started and no content generated
\* at any point, and the result returned is a failure that lists the
\* validation errors and has no modules and no config files.
C8_InvalidTopicAborts ==
    ~validate_topic(topic).is_valid =>
        /\ disk = EmptyDisk
        /\ extractions = 0
        /\ gen = NewGenerator(config.use_ai)
        /\ pc \in {"start", "done"}
        /\ pc = "done" =>
              /\ ~result.success
              /\ result.error.msg = "Topic validation failed"
              /\ result.error.details = validate_topic(topic).errors
              /\ result.error.details # <<>>
              /\ result.modules = <<>>
              /\ result.config_files = <<>>

\* C8 witness: generate_lesson returned for a topic with two modules of the
\* same normalized name, with AI generation enabled.
C8_Witness_InvalidReturned ==
    /\ pc = "done"
    /\ ~validate_topic(topic).is_valid
    /\ HasDuplicates(NormalizedNames(topic.modules))
    /\ config.use_ai

\* C11: a provider call that succeeds at transport level but returns an empty
\* text gives the fallback result: model_used = "fallback" with a non-empty
\* fallback text, never an AI-attributed result with empty content.
C11_EmptyResponseFallsBack ==
    \A i \in DOMAIN calls :
        /\ calls[i].outcome = "empty" =>
              /\ calls[i].response.model_used = "fallback"
              /\ calls[i].response.content.kind = "fallback"
        /\ ~(calls[i].response.model_used # "fallback" /\ calls[i].response.content.syn = "empty")

\* C12: a provider call that has not answered within request_timeout seconds
\* is ended as a failure: once the timeout has passed the call has returned,
\* and a call that took longer than the timeout returned the fallback.
C12_TimeoutFallsBack ==
    clock > RequestTimeout =>
        /\ wpc = "returned"
        /\ wResult.model_used = "fallback"

\* C13: every finished generate_lesson run is in exactly one terminal state:
\* Failed (validation or fatal error, before any module result), Succeeded
\* or QAFailed; a run that generated modules, also one in which a module
\* failed, went on to write the config files and to run QA, so it ends
\* Succeeded (no error) or QAFailed (error set) with a quality report.
C13_LessonStateMachine ==
    pc = "done" =>
        LET qa_ran == result.quality_report # NoReport
            config_written == Len(result.config_files) = Len(ConfigFiles)
            Failed == /\ ~result.success /\ ~qa_ran /\ result.modules = <<>>
                      /\ result.error.msg \in {"Topic validation failed", "Unexpected error"}
            Succeeded == /\ result.success /\ qa_ran /\ config_written
                         /\ result.error = NoError
            QAFailed == /\ ~result.success /\ qa_ran /\ config_written
                        /\ result.error # NoError
        IN Failed \/ Succeeded \/ QAFailed

\* a call whose content was generated by _generate_fallback_content
FallbackGenerated(c) ==
    c.source = "fallback" \/ (c.source = "provider" /\ c.outcome = "error")

C15_FallbackLessonSucceeds ==
    (/\ pc = "done"
     /\ ~config.use_ai
     /\ validate_topic(topic).is_valid
     /\ Len(topic.modules) = 1
     /\ ioFaults = 0) =>
        /\ result.success
        /\ result.error = NoError
        /\ Len(result.modules) = 1
        /\ result.modules[1].success
        /\ NamesOf(result.modules[1]) = ExpectedNames(topic.modules[1])
        /\ Cardinality({q \in DOMAIN disk.files : q[1] = ModuleDir(topic.modules[1])}) = 8
        /\ [k \in DOMAIN result.config_files |-> result.config_files[k].path[2]]
               = <<"README.md", "requirements.txt", "pytest.ini", "Makefile", "setup.cfg",
                   ".gitignore">>
        /\ {q[2] : q \in {r \in DOMAIN disk.files : r[1] = LessonDir}}
               = {"README.md", "requirements.txt", "pytest.ini", "Makefile", "setup.cfg",
                  ".gitignore"}
        /\ disk.dirs = {LessonDir, ModuleDir(topic.modules[1])}
        /\ result.quality_report.quality_score_x10 >= QualityThreshold

\* C15 witness: such a run finished, every content request having been served
\* by the fallback generator.
C15_Witness_AllFallback ==
    /\ pc = "done"
    /\ ~config.use_ai
    /\ Len(topic.modules) = 1
    /\ ioFaults = 0
    /\ gen.stats.fallback_calls = 8
    /\ gen.stats.ai_calls = 0
    /\ result.success

\* C16: a test file written on the fallback or template path for a
\* code_to_test that parses and declares a class names that class; a generic
\* name appears only when the code declares no class or does not parse.
C16_TestNamesClassUnderTest ==
    apc = "written" =>
        /\ (aIn.code.parses /\ aIn.code.classes # <<>>) =>
              aOut.file_class = aIn.code.classes[1].name
        /\ aOut.file_class \in GenericNames =>
              (~aIn.code.parses \/ aIn.code.classes = <<>>)

\* C17: over a background generation task the progress percentages passed
\* to update_task_status never decrease: each one is at least the one
\* passed before it, for any number of topics.
C17_ProgressMonotonic ==
    \A k \in 1..(Len(uLog) - 1) : PctLeq(uLog[k], uLog[k + 1])

\* C18: two generations running through one generator do not disturb each
\* other: every provider call is made with the model and the token budget
\* its own content type selects, as when the runs follow one another, and
\* once both runs are over the usage counter equals the number of calls made.
C18_RunsIndependent ==
    /\ \A t \in DOMAIN tSeen : \A k \in 1..Len(tSeen[t]) :
        /\ tSeen[t][k].model =
              get_cost_optimal_model(shared.openai_model, tSeen[t][k].content_type)
        /\ tSeen[t][k].max_tokens = get_optimal_max_tokens(tSeen[t][k].content_type)
    /\ (DOMAIN tPos # {} /\ \A t \in DOMAIN tPos : tPos[t] = "done")
        => shared.ai_calls = Len(tRuns[1]) + Len(tRuns[2])

\* what C19 says of a slug: it matches ^[a-z0-9_]+$ and has no leading,
\* trailing or doubled underscore
WellFormedSlug(slug) ==
    /\ SlugMatches(slug)
    /\ slug[1] # "_" /\ slug[Len(slug)] # "_"
    /\ \A i \in 1..(Len(slug) - 1) : ~(slug[i] = "_" /\ slug[i + 1] = "_")

\* the parts of C19 that do not depend on how the length of a name is counted
SlugRules ==
    LET name == NameOf(cIn)
    IN /\ cpc \in {"again", "topic", "validate"} =>
            /\ cOut.slug.raised <=>
                   \A i \in DOMAIN name : LowerChar(name[i]) \notin {"a", "b"}
            /\ ~cOut.slug.raised => WellFormedSlug(cOut.slug.value)
            /\ (cIn.body = ExampleName /\ cIn.fill = 0) => cOut.slug.value = ExampleSlug
       /\ (cpc \in {"topic", "validate"} /\ ~cOut.slug.raised) => cOut.again = cOut.slug
       /\ (/\ cpc = "validate"
           /\ \/ \A i \in DOMAIN name : name[i] = " "
              \/ \A i \in DOMAIN name : name[i] \in {"-", ".", "_", "&", "?"})
          => cOut.topic.raised

\* C19: create_slug_from_name maps every name to a slug matching
\* ^[a-z0-9_]+$ without leading, trailing or doubled underscore, or raises
\* ValueError when nothing remains; applied to a slug it returns the same
\* slug; create_topic_from_name raises ValueError for empty, whitespace-only,
\* punctuation-only and over-100-character names.
C19_SlugAndNameRules ==
    /\ SlugRules
    /\ (cpc = "validate" /\ Len(NameOf(cIn)) > MaxNameLength) => cOut.topic.raised

\* C19, amended: the same, the 100 characters being counted after the
\* surrounding whitespace is removed.
C19_SlugAndTrimmedNameRules ==
    /\ SlugRules
    /\ (cpc = "validate" /\ Len(Strip(NameOf(cIn))) > MaxNameLength) => cOut.topic.raised

\* C19: a name of more than 100 characters after trimming was rejected by
\* create_topic_from_name although a slug was made from it and came back
\* unchanged from a second application.
C19_Witness_LongNameRejected ==
    /\ cpc = "validate"
    /\ Len(Strip(NameOf(cIn))) > MaxNameLength
    /\ cOut.topic.raised
    /\ ~cOut.slug.raised
    /\ cOut.again = cOut.slug

\* C20: for every module count n from 1 to 10 create_topic_from_name
\* returns a topic with exactly n modules with pairwise distinct names, the
\* first a starter; for n >= 2 at least one is an assignment, for n >= 4
\* the last is a project; and validate_topic accepts the topic.
C20_TopicHasRequestedModules ==
    (cpc = "done" /\ cIn.modules_count \in 1..MaxModuleCount) =>
        /\ ~cOut.topic.raised
        /\ LET modules == cOut.topic.value.modules
               n == cIn.modules_count
           IN /\ Len(modules) = n
              /\ \A i, j \in DOMAIN modules : i # j => modules[i].name # modules[j].name
              /\ modules[1].type = "starter"
              /\ n >= 2 => CountType(modules, "assignment") >= 1
              /\ n >= 4 => modules[n].type = "project"
        /\ cOut.validation.is_valid

\* C21: the create command exits with a non-zero status and generates nothing
\* when no API key is available and no-AI mode is not selected, when neither a
\* module count nor a config file is given, and when a topic fails validation;
\* given a config file, or no-AI mode with a module count, it proceeds to
\* lesson generation.
C21_CreateExitsOrProceeds ==
    kpc = "done" =>
        LET refused == kExit # 0 /\ kCalls = 0
            nameFails == \E i \in DOMAIN kArgs.topics :
                             validate_topic_name(kArgs.topics[i]).raised
            usable == kArgs.output = "ok" /\ kArgs.generator = "ok"
        IN /\ (~kArgs.no_ai /\ ~kArgs.openai_api_key) => refused
           /\ (kArgs.modules = 0 /\ ~kArgs.config) => refused
           /\ (nameFails /\ ~kArgs.config) => refused
           /\ (usable /\ kArgs.config /\ (kArgs.no_ai \/ kArgs.openai_api_key)) => kCalls > 0
           /\ (usable /\ kArgs.no_ai /\ kArgs.modules # 0 /\ ~kArgs.config /\ ~nameFails)
                  => kCalls > 0

C23_CheckRepairWrite ==
    \A i \in DOMAIN fileLog :
        LET e == fileLog[i]
            path == <<LogDir, e.filename>>
            passes == \/ e.selected.syn \in {"ok", "empty"}
                      \/ e.selected.syn = "fixable" /\ e.selected.repaired
            content == IF passes THEN e.selected ELSE [e.selected EXCEPT !.repaired = TRUE]
        IN (e.filename \in PyFiles /\ e.raised # "template") =>
               /\ e.checks = (IF passes THEN 1 ELSE 2)
               /\ e.repairs = (IF passes THEN 0 ELSE 1)
               /\ ioFaults = 0 => e.raised = "none"
               /\ e.raised = "none" =>
                      /\ path \in DOMAIN disk.files
                      /\ disk.files[path] = content
                      /\ modResult.success =>
                             /\ i \in DOMAIN modResult.files
                             /\ modResult.files[i] = GeneratedFile(path, content)

\* C23 witness: a .py file whose text still does not parse after the repair is
\* on the storage and in the module result, repaired and invalid
C23_Witness_StillInvalidWritten ==
    \E i \in DOMAIN fileLog :
        LET e == fileLog[i]
            path == <<LogDir, e.filename>>
        IN /\ e.filename \in PyFiles
           /\ e.selected.syn = "broken"
           /\ e.repairs = 1 /\ e.checks = 2
           /\ e.raised = "none"
           /\ disk.files[path].repaired
           /\ ~validate_python_syntax(disk.files[path])
           /\ modResult.success
           /\ modResult.files[i].content = disk.files[path]

\* C24: generate_lesson calls module generation for every module in the
\* topic's order, also after a module failed: while the loop runs and when it
\* is left the result holds one module result per module processed, in order,
\* success is false once a module failed, and the error names the first failed
\* module; the result of the loop is replaced by another failure result only
\* when no module failed.
C24_EveryModuleInOrder ==
    /\ [](pc \in {"module", "file", "config"} =>
            LET done == IF pc = "config" THEN Len(topic.modules) ELSE modIdx - 1
                failed == {i \in 1..done : ~result.modules[i].success}
            IN /\ Len(result.modules) = done
               /\ \A i \in 1..done : result.modules[i].module_name = topic.modules[i].name
               /\ result.success = (failed = {})
               /\ failed # {} =>
                      LET first == CHOOSE i \in failed : \A j \in failed : i <= j
                      IN /\ result.error.msg = "Failed to generate module"
                         /\ result.error.module = topic.modules[first].name)
    /\ [][(pc = "config" /\ ~result.success) => (pc' \in {"qa", "done"} /\ result' = result)]_vars
    /\ [][(pc = "qa" /\ ~result.success) => (pc' = "done" /\ result' = result)]_vars

\* C24 witness: the first two modules failed, the loop went on to the third,
\* and the returned result lists all three and names the first
C24_Witness_TwoFailures ==
    /\ pc = "done"
    /\ Len(topic.modules) = 3 /\ Len(result.modules) = 3
    /\ ~result.modules[1].success /\ ~result.modules[2].success /\ result.modules[3].success
    /\ ~result.success
    /\ result.error.module = topic.modules[1].name
    /\ topic.modules[2].name # topic.modules[1].name

C29_CountersBySource ==
    LET served == {i \in DOMAIN calls : calls[i].source = "cache"}
        fresh == DOMAIN calls \ served
        by_ai == {i \in fresh : calls[i].response.model_used # "fallback"}
        by_fallback == {i \in fresh : calls[i].response.model_used = "fallback"}
    IN /\ gen.stats.cache_hits = Cardinality(served)
       /\ gen.stats.ai_calls = Cardinality(by_ai)
       /\ gen.stats.fallback_calls = Cardinality(by_fallback)

\* C26: in every topic that validate_topic accepts, distinct modules have
\* distinct module directories and, for each content type, distinct cache keys.
C26_DistinctDirsAndKeys ==
    (vpc = "validated" /\ vResult.is_valid) =>
        \A i, j \in DOMAIN vTopic.modules :
            i # j =>
                /\ ModuleDir(vTopic.modules[i]) # ModuleDir(vTopic.modules[j])
                /\ \A content_type \in ContentTypes :
                       create_cache_key(content_type, vTopic, vTopic.modules[i])
                           # create_cache_key(content_type, vTopic, vTopic.modules[j])

\* C27: the background task ends with the task COMPLETED or FAILED; it is
\* COMPLETED only when every topic's generation result has success true, and
\* a topic whose result reports failure leaves the task FAILED.
C27_CompletedOnlyOnSuccess ==
    upc = "done" =>
        /\ uStatus \in {"completed", "failed"}
        /\ uStatus = "completed" => \A k \in DOMAIN uResults : uResults[k].success
        /\ (\E k \in DOMAIN uResults : ~uResults[k].success) => uStatus = "failed"

\* C28: generate_lesson always returns, and the result it returns has an error
\* when success is false, and when success is true it has no error, only
\* successful module results, one per module, exactly six config files and a
\* quality report with a score of at least 0.5.
C28_ResultWellFormed ==
    pc = "done" =>
        /\ ~result.success => result.error # NoError /\ result.error.msg # "none"
        /\ result.success =>
               /\ result.error = NoError
               /\ Len(result.modules) = Len(topic.modules)
               /\ \A i \in DOMAIN result.modules : result.modules[i].success
               /\ Len(result.config_files) = 6
               /\ Cardinality({result.config_files[k].path : k \in DOMAIN result.config_files}) = 6
               /\ result.quality_report # NoReport
               /\ result.quality_report.quality_score_x10 >= 5

\* C28 witness: a run that passed the module loop and the config files and was
\* failed by the quality gate alone returned an error and its report
C28_Witness_GateFailure ==
    /\ pc = "done"
    /\ ~result.success
    /\ result.error.msg = "Quality score too low"
    /\ result.quality_report.quality_score_x10 < 5
    /\ Len(result.config_files) = 6
    /\ \A i \in DOMAIN result.modules : result.modules[i].success

\* the sockets registered for a lesson_id
Registered(connections, lesson_id) ==
    IF lesson_id \in DOMAIN connections THEN connections[lesson_id] ELSE {}

\* C30: after any interleaving of connect, disconnect and broadcast_to_lesson,
\* no lesson_id of active_connections maps to an empty set; a disconnect of a
\* socket or lesson_id that is not registered changes nothing and does not
\* raise; a connection whose send failed during a broadcast is no longer
\* registered for that lesson (until it connects again), and the step that
\* removes it leaves every other connection registered.
C30_ConnectionsConsistent ==
    /\ [](\A l \in DOMAIN active_connections : active_connections[l] # {})
    /\ [](\A p \in sFailed : p[1] \notin Registered(active_connections, p[2]))
    /\ [][(sLast'.op = "disconnect"
             /\ sLast'.websocket \notin Registered(active_connections, sLast'.lesson_id))
          => (active_connections' = active_connections /\ sLast'.outcome = "returned")]_vars
    /\ [][(sLast'.op = "send" /\ sLast'.outcome = "raise")
          => \A l \in Lessons :
                Registered(active_connections', l) =
                    IF l = sLast'.lesson_id
                    THEN Registered(active_connections, l) \ {sLast'.websocket}
                    ELSE Registered(active_connections, l)]_vars

\* C30 witness: a send to s1 failed while s1 and s2 were registered for x; s1
\* is gone, s2 is still registered, and the broadcast has s2 yet to serve
C30_Witness_FailedSendRemoved ==
    /\ sLast = Step("send", "s1", "x", "raise")
    /\ <<"s1", "x">> \in sFailed
    /\ "x" \in DOMAIN active_connections
    /\ active_connections["x"] = {"s2"}
    /\ \E task \in sTasks : task.op = "broadcast" /\ task.lesson_id = "x" /\ task.pending = {"s2"}

====
